---- MODULE Spec2Model ----
(***************************************************************************)
(* Model of the puqee LLM gateway (src/orchestration/llm_gateway.py):      *)
(* provider registration, provider selection, and the retry loop of        *)
(* LLMGateway.generate / generate_simple, with concurrent callers.         *)
(* Around it: the AgentManager (src/agent/manager.py), the ChatBot agent    *)
(* and its ConversationManager (src/agent/agents/chatbot), the API and     *)
(* HTTP front ends (src/api) and PuqeeApplication (src/main.py).           *)
(***************************************************************************)
EXTENDS Integers, Sequences, FiniteSets, TLC

\* Python's None, for a name, an omitted integer, an adapter, an exception
\* and a return value
None == "None"
NoneInt == -1
NoAdapter == [none |-> "adapter"]
NoError == [none |-> "error"]
NoResult == [none |-> "result"]

\* ---------------------------------------------------------------- bounds
\* largest retry_count a caller or the configuration supplies
MaxRetry == 4
\* number of callers using the gateway concurrently (SpecConc)
MaxCallers == 2
\* number of times initialize() is run on one gateway
MaxInits == 2
\* length of the message lists handed to the Claude adapter (SpecClaude)
MaxMessages == 3
\* number of agent objects constructed by one AgentManager
MaxAgents == 3
\* number of messages in the conversation of the chat front end (SpecHTTP)
MaxHistory == 4
\* number of add_message calls on one ConversationManager (SpecConv)
MaxAdded == 6

\* ------------------------------------------------------ program constants
DefaultRetryCount == 3
DefaultRetryDelay == 1

RealNames == {"openai", "claude", "kimi"}
MockNames == {"openai", "claude", "kimi", "mock"}
\* names a caller may pass; "unknown" is never registered
CallNames == MockNames \cup {"unknown"}

\* ------------------------------------------------------------- data model
LLMMessage(r, c) == [role |-> r, content |-> c]

to_dict(msg) == [role |-> msg.role, content |-> msg.content]

LLMResponse(c, m, p) == [content |-> c, model |-> m, provider |-> p]

RECURSIVE SelectSeq2(_, _)
\* the subsequence of s whose roles are not in the set roles
SelectSeq2(s, roles) ==
    IF s = <<>> THEN <<>>
    ELSE IF Head(s).role \in roles THEN SelectSeq2(Tail(s), roles)
         ELSE <<Head(s)>> \o SelectSeq2(Tail(s), roles)

\* ------------------------------------------------------------ configuration
\* a provider section of the config: absent (or empty), a dict holding
\* api_key/api_base/model, or a non-empty dict missing one of them
ConfStates == {"absent", "complete", "incomplete"}

ProviderConfs ==
    { f \in [RealNames -> ConfStates] :
        f["claude"] # "incomplete" /\ f["kimi"] # "incomplete" }

RetryCountConfigs == {NoneInt, 0}
RetryDelayConfigs == {NoneInt, 2}
DefaultNameConfigs == {None, "claude"}

AllConfigs ==
    { [default_provider |-> d, retry_count |-> rc, retry_delay |-> rd,
       mock_llm |-> m, sections |-> s] :
        d \in DefaultNameConfigs, rc \in RetryCountConfigs,
        rd \in RetryDelayConfigs, m \in BOOLEAN, s \in ProviderConfs }

\* the configurations a gateway is built with: the provider sections and
\* the retry settings are read independently, so each is varied with the
\* other left at its default; mock mode has no provider section
Configs ==
    { c \in AllConfigs :
        /\ c.mock_llm => c.sections = [n \in RealNames |-> "absent"]
        /\ (c.retry_count # NoneInt \/ c.retry_delay # NoneInt)
           => /\ ~c.mock_llm
              /\ c.default_provider = None
              /\ c.sections = [n \in RealNames |-> "complete"] }

\* dict.get(key, default) for a name and for a number
Get(v, default) == IF v = None THEN default ELSE v
GetInt(v, default) == IF v = NoneInt THEN default ELSE v

\* ------------------------------------------------------------------ state
VARIABLES
    config,            \* LLMGateway.config
    providers,         \* LLMGateway.providers: name -> adapter
    default_provider,  \* LLMGateway.default_provider: adapter or None
    inits,             \* number of initialize() runs so far
    lifecycle,         \* the last of __init__/initialize/shutdown that ran
    call,              \* per caller: the frame of its generate call
    registered_agents, \* AgentManager.registered_agents: the type names
    active_agents,     \* AgentManager.active_agents: agent_id -> agent object
    agents,            \* the Agent objects constructed so far, by identity
    manager_deps,      \* the dependencies injected into the AgentManager
    task,              \* per caller: the frame of its AgentManager call
    http,              \* the chat request the HTTP front end is serving
    conversation_manager, \* a ConversationManager and the messages given to it
    app                \* the PuqeeApplication: its mode and how far it has run

\* the gateway object
gateway_vars == <<config, providers, default_provider, inits, lifecycle>>

\* the agent manager, its agents and the calls made on it
manager_vars == <<registered_agents, active_agents, agents, manager_deps, task>>

\* the ConversationManager on its own and the application around the layers
front_vars == <<conversation_manager, app>>

vars == <<gateway_vars, call, manager_vars, http, front_vars>>

Callers == 1..MaxCallers

\* an adapter object: its class, the initialize() run that built it, and
\* whether its config holds the keys validate_config requires
Adapter(cls, gen, ok) == [cls |-> cls, gen |-> gen, complete |-> ok]

EmptyMap == [n \in {} |-> None]

IdleFrame ==
    [pc |-> "idle", kind |-> None, messages |-> <<>>, provider |-> None,
     retry_arg |-> NoneInt, system_prompt |-> "", user_message |-> "",
     llm_provider |-> NoAdapter, retry_count |-> 0, retry_delay |-> 0,
     attempt |-> 0, last_error |-> NoError,
     log |-> <<>>, received |-> <<>>, errors |-> <<>>,
     provider_arg |-> None,
     default_at_call |-> NoAdapter, providers_at_call |-> EmptyMap,
     lifecycle_at_call |-> None, inits_at_call |-> 0,
     inflight |-> 0,
     response |-> NoResult, result |-> NoResult, error |-> NoError]

\* the frame of a caller that is not inside an AgentManager call
IdleTask ==
    [pc |-> "idle", op |-> None, agent_type |-> None, agent_id |-> None,
     obj |-> 0, result |-> None, error |-> None,
     registered_before |-> {}, active_before |-> EmptyMap,
     agents_before |-> <<>>, deps_before |-> 0,
     pending |-> {}, invoked |-> <<>>,
     session_id |-> None, message |-> "", agent_called |-> FALSE,
     gateway_called |-> FALSE, gateway_log |-> <<>>,
     result_agent_id |-> None, reply |-> None, conversation_length |-> 0]

\* AgentManager.__init__
ManagerInit ==
    /\ registered_agents = {}
    /\ active_agents = EmptyMap
    /\ agents = <<>>
    /\ manager_deps = 0
    /\ task = [c \in Callers |-> IdleTask]

\* the front end when it serves no request
IdleRequest ==
    [pc |-> "idle", server |-> None, message |-> "", obj |-> 0,
     kind |-> None, status_code |-> 0, status |-> None, response |-> None]

\* ConversationManager(max_history): no session yet; added is, per session,
\* what add_message was given since the session was last cleared and count
\* the number of add_message calls so far
NewConversationManager(max) ==
    [max_history |-> max, conversations |-> <<>>, added |-> <<>>,
     count |-> 0]

\* PuqeeApplication(mode) before it is initialized; events lists the
\* shutdowns of agents and of the gateway in the order they were invoked
NewApplication(mode) ==
    [mode |-> mode, pc |-> "constructed", http_server |-> FALSE,
     api_server |-> FALSE, events |-> <<>>]

\* the front ends that a specification leaves alone
FrontInit ==
    /\ http = IdleRequest
    /\ conversation_manager = NewConversationManager(100)
    /\ app = NewApplication(None)

Init ==
    /\ config \in Configs
    /\ providers = EmptyMap
    /\ default_provider = NoAdapter
    /\ inits = 0
    /\ lifecycle = "constructed"
    /\ call = [c \in Callers |-> IdleFrame]
    /\ ManagerInit
    /\ FrontInit

\* ------------------------------------------------------- provider adapters
\* OpenAIProvider.generate / KimiProvider.generate: the request payload
OpenAIPayload(messages) == [i \in 1..Len(messages) |-> to_dict(messages[i])]

\* ClaudeProvider.generate: system messages leave the turn list; the system
\* field holds the content of the last one seen (None when there is none
\* or it is empty)
RECURSIVE ClaudeSystem(_, _)
ClaudeSystem(messages, acc) ==
    IF messages = <<>> THEN acc
    ELSE IF Head(messages).role = "system"
         THEN ClaudeSystem(Tail(messages), Head(messages).content)
         ELSE ClaudeSystem(Tail(messages), acc)

ClaudeConversation(messages) ==
    LET conv == SelectSeq2(messages, {"system"})
    IN  [i \in 1..Len(conv) |-> to_dict(conv[i])]

ClaudePayloadSystem(messages) ==
    LET sm == ClaudeSystem(messages, None)
    IN  IF sm = None \/ sm = "" THEN None ELSE sm

\* MockLLMProvider.generate: the reply depends on the last user message
MockReply(messages) ==
    LET users == SelectSeq2(messages, {"system", "assistant"})
    IN  IF users = <<>>
        THEN [by |-> "mock", text |-> "no_message", re |-> <<>>, sys |-> None]
        ELSE LET last == users[Len(users)]
             IN  [by |-> "mock",
                  text |-> IF last.content = "hi" THEN "greeting" ELSE "echo",
                  re |-> <<to_dict(last)>>, sys |-> None]

\* the LLMResponse an adapter builds from a 200 answer of its upstream; the
\* upstream's text is modelled as a completion of the payload it was sent
AdapterResponse(adapter, messages) ==
    CASE adapter.cls = "mock" ->
            LLMResponse(MockReply(messages), "mock-gpt-3.5-turbo", "mock")
      [] adapter.cls = "claude" ->
            LLMResponse([by |-> "claude", text |-> "completion",
                         re |-> ClaudeConversation(messages),
                         sys |-> ClaudePayloadSystem(messages)],
                        "claude-model", "claude")
      [] OTHER ->
            LLMResponse([by |-> adapter.cls, text |-> "completion",
                         re |-> OpenAIPayload(messages), sys |-> None],
                        adapter.cls, adapter.cls)

\* failures of one adapter invocation that depend on the upstream
UpstreamFailures == {"timeout", "status"}

\* the exception an adapter raises: ValueError when validate_config fails,
\* Exception for a timeout or a non-200 status
AdapterError(kind) ==
    IF kind = "config" THEN [type |-> "ValueError", msg |-> "config incomplete"]
    ELSE [type |-> "Exception", msg |-> kind]

\* ----------------------------------------------------------- registration
\* registration in which the first write wins: a name already registered
\* keeps its adapter
RegisterProvidersKeepFirst(provs, cfg, gen) ==
    IF cfg.mock_llm
    THEN [n \in DOMAIN provs \cup MockNames |->
            IF n \in DOMAIN provs THEN provs[n] ELSE Adapter("mock", gen, TRUE)]
    ELSE LET configured == { n \in RealNames : cfg.sections[n] # "absent" }
         IN  [n \in DOMAIN provs \cup configured |->
                IF n \in DOMAIN provs
                THEN provs[n]
                ELSE Adapter(n, gen, cfg.sections[n] = "complete")]

\* LLMGateway._register_providers, run number gen
RegisterProviders(provs, cfg, gen) ==
    IF cfg.mock_llm
    THEN [n \in DOMAIN provs \cup MockNames |->
            IF n \in MockNames THEN Adapter("mock", gen, TRUE) ELSE provs[n]]
    ELSE LET configured == { n \in RealNames : cfg.sections[n] # "absent" }
         IN  [n \in DOMAIN provs \cup configured |->
                IF n \in configured
                THEN Adapter(n, gen, cfg.sections[n] = "complete")
                ELSE provs[n]]

\* initialize() that falls back to some registered adapter when the
\* configured default name is not registered
InitializePickAny ==
    /\ inits < MaxInits
    /\ inits' = inits + 1
    /\ LET registered == RegisterProviders(providers, config, inits + 1)
           default_provider_name == Get(config.default_provider, "openai")
       IN  /\ providers' = registered
           /\ default_provider' =
                IF default_provider_name \in DOMAIN registered
                THEN registered[default_provider_name]
                ELSE IF DOMAIN registered # {}
                THEN registered[CHOOSE n \in DOMAIN registered : TRUE]
                ELSE default_provider
    /\ lifecycle' = "initialized"
    /\ UNCHANGED <<config, call, manager_vars, http, front_vars>>

\* LLMGateway.initialize
Initialize ==
    /\ inits < MaxInits
    /\ inits' = inits + 1
    /\ LET registered == RegisterProviders(providers, config, inits + 1)
           default_provider_name == Get(config.default_provider, "openai")
       IN  /\ providers' = registered
           /\ default_provider' =
                IF default_provider_name \in DOMAIN registered
                THEN registered[default_provider_name]
                ELSE default_provider
    /\ lifecycle' = "initialized"
    /\ UNCHANGED <<config, call, manager_vars, http, front_vars>>

\* a shutdown that clears the mapping and keeps the default adapter
ShutdownKeepsDefault ==
    /\ providers' = EmptyMap
    /\ default_provider' = default_provider
    /\ lifecycle' = "shutdown"
    /\ UNCHANGED <<config, inits, call, manager_vars, http, front_vars>>

\* LLMGateway.shutdown
Shutdown ==
    /\ providers' = EmptyMap
    /\ default_provider' = NoAdapter
    /\ lifecycle' = "shutdown"
    /\ UNCHANGED <<config, inits, call, manager_vars, http, front_vars>>

\* ------------------------------------------------------- LLMGateway.generate
\* provider selection that ignores the name and takes the default
SelectDefaultOnly(provs, dflt, provider) ==
    IF dflt # NoAdapter THEN dflt ELSE NoAdapter

\* provider selection: the named adapter when the name is truthy and
\* registered, else the default adapter, else None (ValueError is raised)
SelectProvider(provs, dflt, provider) ==
    IF provider # None /\ provider # "" /\ provider \in DOMAIN provs
    THEN provs[provider]
    ELSE IF dflt # NoAdapter THEN dflt
    ELSE NoAdapter

\* the ValueError raised when no provider can be selected
NoProviderError == [type |-> "ValueError", msg |-> "no provider available"]

\* retry parameters of one call
EffectiveRetryCount(cfg, retry_arg) ==
    IF retry_arg = NoneInt THEN GetInt(cfg.retry_count, DefaultRetryCount)
    ELSE retry_arg

EffectiveRetryDelay(cfg) == GetInt(cfg.retry_delay, DefaultRetryDelay)

\* exponential backoff: the delay doubles with every retry
BackoffExponential(retry_delay, attempt) == retry_delay * 2 ^ (attempt - 1)

\* the argument of asyncio.sleep before the attempt with loop index attempt
BackoffDelay(retry_delay, attempt) == retry_delay * attempt

\* range(retry_count): the loop indices of the retry loop
AttemptRange(retry_count) == 0..(retry_count - 1)

\* a break taken one iteration early
LastAttemptEarly(attempt, retry_count) == attempt >= retry_count - 2

\* the test that guards the break at the end of the except branch
LastAttempt(attempt, retry_count) == attempt = retry_count - 1

\* str(e) of the last error, as formatted into the final message
ErrorText(last_error) == IF last_error = NoError THEN "None" ELSE last_error.msg

\* the Exception raised after the loop
ExhaustedError(retry_count, last_error) ==
    [type |-> "Exception",
     msg |-> "LLM call failed",
     retried |-> retry_count,
     last |-> ErrorText(last_error)]

Event(e, n) == [ev |-> e, n |-> n]

\* the adapter's generate is entered for loop index f.attempt
InvokeAdapter(f) ==
    [f EXCEPT !.pc = "invoking",
              !.inflight = @ + 1,
              !.log = Append(@, Event("invoke", f.attempt + 1)),
              !.received = Append(@, [adapter |-> f.llm_provider,
                                      messages |-> f.messages])]

\* the frame of a call from its entry up to its first suspension point
EnterGenerate(f, messages, provider, retry_arg) ==
    LET llm_provider == SelectProvider(providers, default_provider, provider)
        retry_count == EffectiveRetryCount(config, retry_arg)
        g == [f EXCEPT !.messages = messages,
                       !.provider = provider,
                       !.retry_arg = retry_arg,
                       !.default_at_call = default_provider,
                       !.providers_at_call = providers,
                       !.lifecycle_at_call = lifecycle,
                       !.inits_at_call = inits,
                       !.llm_provider = llm_provider,
                       !.retry_count = retry_count,
                       !.retry_delay = EffectiveRetryDelay(config),
                       !.attempt = 0,
                       !.last_error = NoError]
    IN  IF llm_provider = NoAdapter
        THEN [g EXCEPT !.pc = "raised", !.error = NoProviderError]
        ELSE IF 0 \notin AttemptRange(retry_count)
        THEN [g EXCEPT !.pc = "raised",
                       !.error = ExhaustedError(retry_count, NoError)]
        ELSE InvokeAdapter(g)

Generate(c, messages, provider, retry_arg) ==
    /\ call[c].pc = "idle"
    /\ call' = [call EXCEPT ![c] =
                  EnterGenerate([@ EXCEPT !.kind = "generate",
                                          !.provider_arg = provider],
                                messages, provider, retry_arg)]
    /\ UNCHANGED <<gateway_vars, manager_vars, http, front_vars>>

\* the adapter returns an LLMResponse but the loop is not left: the
\* response is only returned once the loop indices are used up
AdapterReturnsKeepsLooping(c) ==
    LET f == call[c] IN
    /\ f.pc = "invoking"
    /\ f.llm_provider.complete
    /\ LET response == AdapterResponse(f.llm_provider, f.messages)
           g == [f EXCEPT !.inflight = @ - 1,
                          !.log = Append(@, Event("ok", f.attempt + 1)),
                          !.response = response,
                          !.result = IF f.kind = "simple"
                                     THEN response.content ELSE response]
       IN  call' = [call EXCEPT ![c] =
              IF f.attempt + 1 \notin 0..(f.retry_count - 1)
              THEN [g EXCEPT !.pc = "returned"]
              ELSE [g EXCEPT !.pc = "sleeping",
                             !.attempt = f.attempt + 1,
                             !.log = Append(@, Event("sleep",
                                        f.retry_delay * (f.attempt + 1)))]]
    /\ UNCHANGED <<gateway_vars, manager_vars, http, front_vars>>

\* the adapter returns an LLMResponse: generate returns it
AdapterReturns(c) ==
    LET f == call[c] IN
    /\ f.pc = "invoking"
    /\ f.llm_provider.complete
    /\ LET response == AdapterResponse(f.llm_provider, f.messages)
       IN  call' = [call EXCEPT ![c] =
              [f EXCEPT !.pc = "returned",
                        !.inflight = @ - 1,
                        !.log = Append(@, Event("ok", f.attempt + 1)),
                        !.response = response,
                        !.result = IF f.kind = "simple"
                                   THEN response.content ELSE response]]
    /\ UNCHANGED <<gateway_vars, manager_vars, http, front_vars>>

\* the next iteration with the sleep started but not awaited: the adapter
\* is invoked at once
NextIterationNoAwait(g) ==
    [g EXCEPT !.pc = "invoking",
              !.attempt = g.attempt + 1,
              !.inflight = @ + 1,
              !.log = @ \o <<[ev |-> "sleep", n |-> g.retry_delay * (g.attempt + 1)],
                             [ev |-> "invoke", n |-> g.attempt + 2]>>,
              !.received = Append(@, [adapter |-> g.llm_provider,
                                      messages |-> g.messages])]

\* the next iteration of the loop up to its suspension point: attempt > 0
\* holds, so asyncio.sleep is awaited first
NextIteration(g) ==
    [g EXCEPT !.pc = "sleeping",
              !.attempt = g.attempt + 1,
              !.log = Append(@, Event("sleep",
                         BackoffDelay(g.retry_delay, g.attempt + 1)))]

\* an except branch that never leaves the loop: after the last attempt
\* the loop starts over
ExceptBranchRestart(f, e) ==
    IF \/ LastAttempt(f.attempt, f.retry_count)
       \/ f.attempt + 1 \notin AttemptRange(f.retry_count)
    THEN InvokeAdapter([f EXCEPT !.attempt = 0, !.errors = <<>>,
                                !.received = <<>>, !.log = <<>>])
    ELSE NextIteration([f EXCEPT !.last_error = e,
                                !.errors = Append(@, e.msg),
                                !.log = Append(@, Event("fail",
                                                        f.attempt + 1))])

\* the except branch of the loop for the exception e, then either the
\* raise after the loop or the sleep that opens the next iteration
ExceptBranch(f, e) ==
    LET g == [f EXCEPT !.last_error = e,
                       !.errors = Append(@, e.msg),
                       !.log = Append(@, Event("fail", f.attempt + 1))]
    IN  IF \/ LastAttempt(f.attempt, f.retry_count)
           \/ f.attempt + 1 \notin AttemptRange(f.retry_count)
        THEN [g EXCEPT !.pc = "raised",
                       !.error = ExhaustedError(f.retry_count, e)]
        ELSE NextIteration(g)

\* the adapter raises
AdapterRaises(c, kind) ==
    LET f == call[c] IN
    /\ f.pc = "invoking"
    /\ IF f.llm_provider.complete
       THEN f.llm_provider.cls # "mock" /\ kind \in UpstreamFailures
       ELSE kind = "config"
    /\ call' = [call EXCEPT ![c] =
                  ExceptBranch([f EXCEPT !.inflight = @ - 1],
                               AdapterError(kind))]
    /\ UNCHANGED <<gateway_vars, manager_vars, http, front_vars>>

\* the adapter returns an LLMResponse and the logger.debug call that
\* follows it inside the try block raises
LogError == [type |-> "Exception", msg |-> "log"]

ReportRaises(c) ==
    LET f == call[c] IN
    /\ f.pc = "invoking"
    /\ f.llm_provider.complete
    /\ call' = [call EXCEPT ![c] =
                  ExceptBranch(
                    [f EXCEPT !.inflight = @ - 1,
                              !.log = Append(@, Event("ok", f.attempt + 1)),
                              !.response =
                                 AdapterResponse(f.llm_provider, f.messages)],
                    LogError)]
    /\ UNCHANGED <<gateway_vars, manager_vars, http, front_vars>>

\* asyncio.CancelledError, thrown into the task at its suspension point
CancelledError == [type |-> "CancelledError", msg |-> "cancelled"]

\* the exception classes derived from Exception; CancelledError derives
\* from BaseException only
ExceptionClasses == {"Exception", "ValueError", "TimeoutError"}

\* an except clause that catches everything
CaughtByBareExcept(e) == TRUE

\* whether `except Exception` catches e
CaughtByExcept(e) == e.type \in ExceptionClasses

\* the task is cancelled while it awaits the adapter or the sleep
Cancel(c) ==
    LET f == call[c]
        g == [f EXCEPT !.inflight = IF f.pc = "invoking" THEN @ - 1 ELSE @]
    IN
    /\ f.pc \in {"invoking", "sleeping"}
    /\ call' = [call EXCEPT ![c] =
                  IF CaughtByExcept(CancelledError)
                  THEN ExceptBranch(g, CancelledError)
                  ELSE [g EXCEPT !.pc = "cancelled",
                                 !.error = CancelledError,
                                 !.log = Append(@, Event("cancel",
                                                         f.attempt + 1))]]
    /\ UNCHANGED <<gateway_vars, manager_vars, http, front_vars>>

\* asyncio.sleep returns: the adapter is invoked again
SleepReturns(c) ==
    /\ call[c].pc = "sleeping"
    /\ call' = [call EXCEPT ![c] =
                  InvokeAdapter([@ EXCEPT !.log = Append(@, Event("wake", 0))])]
    /\ UNCHANGED <<gateway_vars, manager_vars, http, front_vars>>

\* the caller has consumed the outcome and may call again
Finish(c) ==
    /\ call[c].pc \in {"returned", "raised", "cancelled"}
    /\ call' = [call EXCEPT ![c] = IdleFrame]
    /\ UNCHANGED <<gateway_vars, manager_vars, http, front_vars>>

\* ------------------------------------------------ LLMGateway.generate_simple
\* a system message is added even for an empty prompt
BuildMessagesAlwaysSystem(system_prompt, user_message) ==
    <<[role |-> "system", content |-> system_prompt],
      [role |-> "user", content |-> user_message]>>

BuildMessages(system_prompt, user_message) ==
    (IF system_prompt # "" THEN <<LLMMessage("system", system_prompt)>>
     ELSE <<>>)
    \o <<LLMMessage("user", user_message)>>

GenerateSimple(c, system_prompt, user_message, provider) ==
    /\ call[c].pc = "idle"
    /\ call' = [call EXCEPT ![c] =
                  EnterGenerate([@ EXCEPT !.kind = "simple",
                                          !.provider_arg = provider,
                                          !.system_prompt = system_prompt,
                                          !.user_message = user_message],
                                BuildMessages(system_prompt, user_message),
                                provider, NoneInt)]
    /\ UNCHANGED <<gateway_vars, manager_vars, http, front_vars>>

\* ------------------------------------------------------------ AgentManager
\* the agent types, agent ids and dependency sets that callers use; the
\* dependency set 0 is the one of a fresh manager (every component None)
AgentTypes == {"chatbot", "demo"}
AgentIds == {"default_chatbot", "a2"}
Dependencies == {1, 2}

\* Agent.__init__ followed by Agent.inject_dependencies
NewAgent(agent_id, agent_type, deps) ==
    [agent_id |-> agent_id, type |-> agent_type, is_initialized |-> FALSE,
     deps |-> deps, conversations |-> <<>>]

\* the mapping m without the key k
RemoveKey(m, k) == [x \in DOMAIN m \ {k} |-> m[x]]

\* the mapping m with m[k] = v
SetKey(m, k, v) == [x \in DOMAIN m \cup {k} |-> IF x = k THEN v ELSE m[x]]

\* the objects that are values of active_agents
ActiveObjects == { active_agents[i] : i \in DOMAIN active_agents }

\* AgentManager.register_agent
RegisterAgent(agent_type) ==
    /\ registered_agents' = registered_agents \cup {agent_type}
    /\ UNCHANGED <<active_agents, agents, manager_deps, task>>
    /\ UNCHANGED <<gateway_vars, call, http, front_vars>>

\* AgentManager.inject_dependencies: the manager and every active agent
InjectDependencies(deps) ==
    /\ manager_deps' = deps
    /\ agents' = [o \in DOMAIN agents |->
                    IF o \in ActiveObjects
                    THEN [agents[o] EXCEPT !.deps = deps]
                    ELSE agents[o]]
    /\ UNCHANGED <<registered_agents, active_agents, task>>
    /\ UNCHANGED <<gateway_vars, call, http, front_vars>>

\* the frame of a call as it is entered
EnterTask(op, agent_type, agent_id) ==
    [IdleTask EXCEPT !.op = op, !.agent_type = agent_type,
                     !.agent_id = agent_id,
                     !.registered_before = registered_agents,
                     !.active_before = active_agents,
                     !.agents_before = agents,
                     !.deps_before = manager_deps]

\* create_agent without the check that the id is free
CreateAgentReplaces(t, agent_type, agent_id, config_ok) ==
    LET f == EnterTask("create_agent", agent_type, agent_id) IN
    /\ task[t].pc = "idle"
    /\ Len(agents) < MaxAgents
    /\ IF agent_type \notin registered_agents
       THEN /\ task' = [task EXCEPT ![t] =
                         [f EXCEPT !.pc = "raised",
                                   !.error = "ValueError: unregistered type"]]
            /\ UNCHANGED agents
       ELSE IF ~config_ok
       THEN /\ task' = [task EXCEPT ![t] =
                         [f EXCEPT !.pc = "raised",
                                   !.error = "TypeError: constructor"]]
            /\ UNCHANGED agents
       ELSE /\ agents' = Append(agents,
                                NewAgent(agent_id, agent_type, manager_deps))
            /\ task' = [task EXCEPT ![t] =
                         [f EXCEPT !.pc = "initializing",
                                   !.obj = Len(agents) + 1]]
    /\ UNCHANGED <<registered_agents, active_agents, manager_deps>>
    /\ UNCHANGED <<gateway_vars, call, http, front_vars>>

\* AgentManager.create_agent up to `await agent.initialize()`; config_ok
\* tells whether the agent class accepts the config keywords
CreateAgent(t, agent_type, agent_id, config_ok) ==
    LET f == EnterTask("create_agent", agent_type, agent_id) IN
    /\ task[t].pc = "idle"
    /\ Len(agents) < MaxAgents
    /\ IF agent_type \notin registered_agents
       THEN /\ task' = [task EXCEPT ![t] =
                         [f EXCEPT !.pc = "raised",
                                   !.error = "ValueError: unregistered type"]]
            /\ UNCHANGED agents
       ELSE IF agent_id \in DOMAIN active_agents
       THEN /\ task' = [task EXCEPT ![t] =
                         [f EXCEPT !.pc = "raised",
                                   !.error = "ValueError: id exists"]]
            /\ UNCHANGED agents
       ELSE IF ~config_ok
       THEN /\ task' = [task EXCEPT ![t] =
                         [f EXCEPT !.pc = "raised",
                                   !.error = "TypeError: constructor"]]
            /\ UNCHANGED agents
       ELSE /\ agents' = Append(agents,
                                NewAgent(agent_id, agent_type, manager_deps))
            /\ task' = [task EXCEPT ![t] =
                         [f EXCEPT !.pc = "initializing",
                                   !.obj = Len(agents) + 1]]
    /\ UNCHANGED <<registered_agents, active_agents, manager_deps>>
    /\ UNCHANGED <<gateway_vars, call, http, front_vars>>

\* Agent.initialize returns: the agent is marked initialized and
\* create_agent stores it and returns it
InitializeReturns(t) ==
    LET f == task[t] IN
    /\ f.pc = "initializing"
    /\ agents' = [agents EXCEPT ![f.obj].is_initialized = TRUE]
    /\ active_agents' = SetKey(active_agents, f.agent_id, f.obj)
    /\ task' = [task EXCEPT ![t] = [f EXCEPT !.pc = "returned",
                                             !.result = "agent"]]
    /\ UNCHANGED <<registered_agents, manager_deps>>
    /\ UNCHANGED <<gateway_vars, call, http, front_vars>>

\* _initialize_agent raises: Agent.initialize and create_agent re-raise
InitializeRaises(t) ==
    LET f == task[t] IN
    /\ f.pc = "initializing"
    /\ task' = [task EXCEPT ![t] = [f EXCEPT !.pc = "raised",
                                             !.error = "initialize failed"]]
    /\ UNCHANGED <<registered_agents, active_agents, agents, manager_deps>>
    /\ UNCHANGED <<gateway_vars, call, http, front_vars>>

\* AgentManager.remove_agent up to `await agent.shutdown()`
RemoveAgent(t, agent_id) ==
    LET f == EnterTask("remove_agent", None, agent_id) IN
    /\ task[t].pc = "idle"
    /\ task' = [task EXCEPT ![t] =
                  IF agent_id \notin DOMAIN active_agents
                  THEN [f EXCEPT !.pc = "returned", !.result = "False"]
                  ELSE [f EXCEPT !.pc = "shutting_down",
                                 !.obj = active_agents[agent_id]]]
    /\ UNCHANGED <<registered_agents, active_agents, agents, manager_deps>>
    /\ UNCHANGED <<gateway_vars, call, http, front_vars>>

\* Agent.shutdown returns: _cleanup_agent has run (a ChatBot clears its
\* conversations), the agent is marked not initialized, and remove_agent
\* deletes the id; a missing key is a KeyError caught by remove_agent
ShutdownReturns(t) ==
    LET f == task[t] IN
    /\ f.pc = "shutting_down"
    /\ agents' = [agents EXCEPT ![f.obj].is_initialized = FALSE,
                                ![f.obj].conversations = <<>>]
    /\ IF f.agent_id \in DOMAIN active_agents
       THEN /\ active_agents' = RemoveKey(active_agents, f.agent_id)
            /\ task' = [task EXCEPT ![t] = [f EXCEPT !.pc = "returned",
                                                     !.result = "True"]]
       ELSE /\ UNCHANGED active_agents
            /\ task' = [task EXCEPT ![t] = [f EXCEPT !.pc = "returned",
                                                     !.result = "False",
                                                     !.error = "KeyError"]]
    /\ UNCHANGED <<registered_agents, manager_deps>>
    /\ UNCHANGED <<gateway_vars, call, http, front_vars>>

\* a failed shutdown after which remove_agent deletes the id all the same
ShutdownRaisesRemoves(t) ==
    LET f == task[t] IN
    /\ f.pc = "shutting_down"
    /\ active_agents' = RemoveKey(active_agents, f.agent_id)
    /\ task' = [task EXCEPT ![t] = [f EXCEPT !.pc = "returned",
                                             !.result = "False",
                                             !.error = "cleanup failed"]]
    /\ UNCHANGED <<registered_agents, agents, manager_deps>>
    /\ UNCHANGED <<gateway_vars, call, http, front_vars>>

\* _cleanup_agent raises: Agent.shutdown re-raises before it clears
\* is_initialized, remove_agent catches the exception and returns False
ShutdownRaises(t) ==
    LET f == task[t] IN
    /\ f.pc = "shutting_down"
    /\ task' = [task EXCEPT ![t] = [f EXCEPT !.pc = "returned",
                                             !.result = "False",
                                             !.error = "cleanup failed"]]
    /\ UNCHANGED <<registered_agents, active_agents, agents, manager_deps>>
    /\ UNCHANGED <<gateway_vars, call, http, front_vars>>

\* AgentManager.shutdown_all_agents up to `await asyncio.gather(...)`: one
\* _safe_shutdown_agent task per entry of active_agents; with no entry the
\* mapping is cleared at once
ShutdownAllAgents(t) ==
    LET f == EnterTask("shutdown_all_agents", None, None) IN
    /\ task[t].pc = "idle"
    /\ IF DOMAIN active_agents = {}
       THEN /\ task' = [task EXCEPT ![t] = [f EXCEPT !.pc = "returned"]]
            /\ active_agents' = EmptyMap
       ELSE /\ task' = [task EXCEPT ![t] =
                         [f EXCEPT !.pc = "gathering",
                                   !.pending = ActiveObjects]]
            /\ UNCHANGED active_agents
    /\ UNCHANGED <<registered_agents, agents, manager_deps>>
    /\ UNCHANGED <<gateway_vars, call, http, front_vars>>

\* one _safe_shutdown_agent task runs and agent.shutdown() returns
SafeShutdownReturns(t, o) ==
    LET f == task[t] IN
    /\ f.pc = "gathering"
    /\ o \in f.pending
    /\ agents' = [agents EXCEPT ![o].is_initialized = FALSE,
                                ![o].conversations = <<>>]
    /\ task' = [task EXCEPT ![t] = [f EXCEPT !.pending = @ \ {o},
                                             !.invoked = Append(@, o)]]
    /\ UNCHANGED <<registered_agents, active_agents, manager_deps>>
    /\ UNCHANGED <<gateway_vars, call, http, front_vars>>

\* one _safe_shutdown_agent task runs, agent.shutdown() raises and the
\* task logs the exception
SafeShutdownRaises(t, o) ==
    LET f == task[t] IN
    /\ f.pc = "gathering"
    /\ o \in f.pending
    /\ task' = [task EXCEPT ![t] = [f EXCEPT !.pending = @ \ {o},
                                             !.invoked = Append(@, o),
                                             !.error = "cleanup failed"]]
    /\ UNCHANGED <<registered_agents, active_agents, agents, manager_deps>>
    /\ UNCHANGED <<gateway_vars, call, http, front_vars>>

\* a shutdown_all_agents that keeps the agents that are still initialized
ShutdownAllReturnsKeepsFailed(t) ==
    LET f == task[t] IN
    /\ f.pc = "gathering"
    /\ f.pending = {}
    /\ active_agents' =
          [i \in { j \in DOMAIN active_agents :
                     agents[active_agents[j]].is_initialized } |->
             active_agents[i]]
    /\ task' = [task EXCEPT ![t] = [f EXCEPT !.pc = "returned"]]
    /\ UNCHANGED <<registered_agents, agents, manager_deps>>
    /\ UNCHANGED <<gateway_vars, call, http, front_vars>>

\* every task of the gather is done: shutdown_all_agents clears
\* active_agents and returns
ShutdownAllReturns(t) ==
    LET f == task[t] IN
    /\ f.pc = "gathering"
    /\ f.pending = {}
    /\ active_agents' = EmptyMap
    /\ task' = [task EXCEPT ![t] = [f EXCEPT !.pc = "returned"]]
    /\ UNCHANGED <<registered_agents, agents, manager_deps>>
    /\ UNCHANGED <<gateway_vars, call, http, front_vars>>

\* the caller takes the outcome of its AgentManager call
TaskFinish(t) ==
    /\ task[t].pc \in {"returned", "raised"}
    /\ task' = [task EXCEPT ![t] = IdleTask]
    /\ UNCHANGED <<registered_agents, active_agents, agents, manager_deps>>
    /\ UNCHANGED <<gateway_vars, call, http, front_vars>>

\* ---------------------------------------------- ChatBotAgent and front ends
\* ConversationManager.max_history
max_history == 100

\* the id under which both front ends create and look up their ChatBot
default_chatbot_id == "default_chatbot"

\* the messages a chat request carries: the field missing, empty, blank or
\* a text
ChatInputs == {None, "", " ", "hi"}

\* str.strip on the chat inputs and on the texts an adapter returns
Strip(m) == IF m = " " THEN "" ELSE m

ChatMessage(role, content) == [role |-> role, content |-> content]

\* ConversationManager.get_conversation_history
History(conversations, session_id) ==
    IF session_id \in DOMAIN conversations THEN conversations[session_id]
    ELSE <<>>

\* messages[-n:] of a list: the whole list for n = 0, else its last n
\* elements (the whole list when it has fewer)
LastOf(messages, n) ==
    IF n = 0 \/ n >= Len(messages) THEN messages
    ELSE SubSeq(messages, Len(messages) - n + 1, Len(messages))

\* an add_message that drops the newest messages when the list is full
AddMessageKeepsOldest(max, conversations, session_id, message) ==
    LET new == Append(History(conversations, session_id), message)
    IN  SetKey(conversations, session_id,
               IF Len(new) > max THEN SubSeq(new, 1, max) ELSE new)
\* ConversationManager.add_message of a manager built with max_history = max
AddMessageTo(max, conversations, session_id, message) ==
    LET new == Append(History(conversations, session_id), message)
    IN  SetKey(conversations, session_id,
               IF Len(new) > max THEN LastOf(new, max) ELSE new)

\* ConversationManager.add_message of the manager a ChatBot builds
AddMessage(conversations, session_id, message) ==
    AddMessageTo(max_history, conversations, session_id, message)

\* ConversationManager.clear_conversation
ClearConversation(conversations, session_id) ==
    IF session_id \in DOMAIN conversations
    THEN RemoveKey(conversations, session_id)
    ELSE conversations

\* ChatBotAgent._build_user_message_with_context: the current message when
\* there is no history, else one text made of the recent history and the
\* current message
BuildUserMessageWithContext(history, current_message) ==
    IF history = <<>> THEN current_message ELSE "context"

\* ChatBotAgent._generate_smart_default_response
DefaultReply == "default_reply"

\* the HTTP answer of HTTPServer.chat_with_bot for the result of
\* ChatBotAgent.process: a result that is not a success raises
\* HTTPException(500), which the handler's own `except Exception` turns
\* into another HTTPException(500)
FastAPIAnswer(status) ==
    IF status = "success" THEN [status_code |-> 200, status |-> "success"]
    ELSE [status_code |-> 500, status |-> "error"]

\* the HTTP answer of SimpleHTTPServer for the dict _process_chat_sync
\* returns: _send_json_response with its default status code
SimpleAnswer(status) == [status_code |-> 200, status |-> status]

Answer(server, status) ==
    IF server = "fastapi" THEN FastAPIAnswer(status) ELSE SimpleAnswer(status)

\* the front end has answered the request
Respond(req, kind, status, response) ==
    [req EXCEPT !.pc = "responded", !.kind = kind,
                !.status_code = Answer(req.server, status).status_code,
                !.status = Answer(req.server, status).status,
                !.response = response]

\* a POST /chat request up to the answer or to the await of generate_simple
ChatRequest(server, message) ==
    LET req == [IdleRequest EXCEPT !.server = server, !.message = message] IN
    /\ http.pc = "idle"
    /\ call[1].pc = "idle"
    /\ server = "fastapi" => message # None
    /\ IF message = None
       THEN \* do_POST: _send_error(400, "Missing 'message' field")
            /\ http' = [req EXCEPT !.pc = "responded",
                                   !.kind = "caller_input",
                                   !.status_code = 400, !.status = "error"]
            /\ UNCHANGED <<call, agents>>
       ELSE IF default_chatbot_id \notin DOMAIN active_agents
       THEN /\ http' = Respond(req, "no_chatbot", "error", None)
            /\ UNCHANGED <<call, agents>>
       ELSE IF Strip(message) = ""
       THEN /\ http' = Respond(req, "caller_input", "error", None)
            /\ UNCHANGED <<call, agents>>
       ELSE LET obj == active_agents[default_chatbot_id]
                conv == AddMessage(agents[obj].conversations, "default",
                                   ChatMessage("user", message))
                history == History(conv, "default")
            IN  /\ Len(history) < MaxHistory
                /\ IF agents[obj].deps # 0
                   THEN /\ agents' = [agents EXCEPT ![obj].conversations = conv]
                        /\ call' = [call EXCEPT ![1] =
                              EnterGenerate(
                                [@ EXCEPT !.kind = "simple",
                                          !.provider_arg = None,
                                          !.system_prompt = "sys",
                                          !.user_message =
                                             BuildUserMessageWithContext(
                                                history, message)],
                                BuildMessages("sys",
                                   BuildUserMessageWithContext(history,
                                                               message)),
                                None, NoneInt)]
                        /\ http' = [req EXCEPT !.pc = "generating",
                                               !.obj = obj]
                   ELSE /\ agents' = [agents EXCEPT ![obj].conversations =
                              AddMessage(conv, "default",
                                         ChatMessage("assistant",
                                                     DefaultReply))]
                        /\ http' = Respond([req EXCEPT !.obj = obj], "ok",
                                           "success", DefaultReply)
                        /\ UNCHANGED call
    /\ UNCHANGED <<gateway_vars, registered_agents, active_agents,
                   manager_deps, task, front_vars>>

\* generate_simple has returned or raised: ChatBotAgent._generate_response
\* takes the text, or the default reply when the call raised or the text
\* is blank; process records the reply and the front end answers
ChatResume ==
    LET f == call[1]
        reply == IF f.pc = "returned" /\ Strip(f.result.text) # ""
                 THEN Strip(f.result.text)
                 ELSE DefaultReply
        kind == IF f.pc = "returned" THEN "ok"
                ELSE IF f.error = NoProviderError THEN "no_provider"
                ELSE "upstream_exhausted"
    IN
    /\ http.pc = "generating"
    /\ f.pc \in {"returned", "raised"}
    /\ agents' = [agents EXCEPT ![http.obj].conversations =
                    AddMessage(@, "default", ChatMessage("assistant", reply))]
    /\ http' = Respond(http, kind, "success", reply)
    /\ call' = [call EXCEPT ![1] = IdleFrame]
    /\ UNCHANGED <<gateway_vars, registered_agents, active_agents,
                   manager_deps, task, front_vars>>

\* the session ids of the process calls
Sessions == {"default", "s2"}

\* a message recorded under the role user whatever its role is
EntryAsUser(role, content, t) ==
    [role |-> "user", content |-> content, by |-> t]
\* a message of a history together with the caller whose process call
\* added it
Entry(role, content, t) == [role |-> role, content |-> content, by |-> t]

\* an adapter of a real provider answers 200 with no text or a blank text:
\* the LLMResponse has that content
AdapterReturnsText(c, text) ==
    LET f == call[c] IN
    /\ f.pc = "invoking"
    /\ f.llm_provider.complete
    /\ f.llm_provider.cls # "mock"
    /\ LET r == AdapterResponse(f.llm_provider, f.messages)
           response == [r EXCEPT !.content.text = text]
       IN  call' = [call EXCEPT ![c] =
              [f EXCEPT !.pc = "returned",
                        !.inflight = @ - 1,
                        !.log = Append(@, Event("ok", f.attempt + 1)),
                        !.response = response,
                        !.result = IF f.kind = "simple"
                                   THEN response.content ELSE response]]
    /\ UNCHANGED <<gateway_vars, manager_vars, http, front_vars>>

\* a result dict without the agent_id of the request
ResultWithoutAgentId(f, status, error) ==
    [f EXCEPT !.pc = "returned", !.result = status, !.error = error]
\* the result dict of a call: status and, for process_request, agent_id
Result(f, status, error) ==
    [f EXCEPT !.pc = "returned", !.result = status, !.error = error,
              !.result_agent_id = f.agent_id]

\* a process call that records the user message without looking at it
ProcessRequestRecordsFirst(t, agent_id, session_id, message, outcome) ==
    LET f == [EnterTask("process_request", None, agent_id)
                EXCEPT !.session_id = session_id, !.message = message]
    IN
    /\ task[t].pc = "idle"
    /\ call[t].pc = "idle"
    /\ agent_id \in DOMAIN active_agents
    /\ agents[active_agents[agent_id]].type = "chatbot"
    /\ message # None
    /\ LET obj == active_agents[agent_id]
           conv == AddMessage(agents[obj].conversations, session_id,
                              Entry("user", message, t))
       IN  /\ Len(History(conv, session_id)) < MaxHistory
           /\ agents' = [agents EXCEPT ![obj].conversations = conv]
           /\ task' = [task EXCEPT ![t] =
                 Result([f EXCEPT !.obj = obj, !.agent_called = TRUE],
                        IF Strip(message) = "" THEN "error" ELSE "success",
                        IF Strip(message) = "" THEN "blank message"
                        ELSE None)]
    /\ UNCHANGED <<registered_agents, active_agents, manager_deps>>
    /\ UNCHANGED <<gateway_vars, call, http, front_vars>>

\* AgentManager.process_request and the agent's process up to the result
\* or, for a ChatBot with a gateway, to the await of generate_simple;
\* outcome is what the process of an agent that is not a ChatBot does
ProcessRequest(t, agent_id, session_id, message, outcome) ==
    LET f == [EnterTask("process_request", None, agent_id)
                EXCEPT !.session_id = session_id, !.message = message]
    IN
    /\ task[t].pc = "idle"
    /\ call[t].pc = "idle"
    /\ IF agent_id \notin DOMAIN active_agents
       THEN /\ task' = [task EXCEPT ![t] =
                         Result(f, "error", "agent not found")]
            /\ UNCHANGED <<agents, call>>
       ELSE LET obj == active_agents[agent_id]
                g == [f EXCEPT !.obj = obj, !.agent_called = TRUE]
            IN
            IF agents[obj].type # "chatbot"
            THEN /\ task' = [task EXCEPT ![t] =
                       IF outcome = "raises"
                       THEN Result(g, "error", "process raised")
                       ELSE Result(g, "success", None)]
                 /\ UNCHANGED <<agents, call>>
            ELSE IF message = None
            THEN \* input_data["message"] is not a str: .strip() raises
                 /\ task' = [task EXCEPT ![t] =
                                Result(g, "error", "AttributeError")]
                 /\ UNCHANGED <<agents, call>>
            ELSE IF Strip(message) = ""
            THEN /\ task' = [task EXCEPT ![t] =
                                Result(g, "error", "blank message")]
                 /\ UNCHANGED <<agents, call>>
            ELSE LET conv == AddMessage(agents[obj].conversations,
                                        session_id,
                                        Entry("user", message, t))
                     history == History(conv, session_id)
                 IN  /\ Len(history) < MaxHistory
                     /\ IF agents[obj].deps # 0
                        THEN /\ agents' = [agents EXCEPT
                                             ![obj].conversations = conv]
                             /\ call' = [call EXCEPT ![t] =
                                   EnterGenerate(
                                     [@ EXCEPT !.kind = "simple",
                                               !.provider_arg = None,
                                               !.system_prompt = "sys",
                                               !.user_message =
                                                 BuildUserMessageWithContext(
                                                    history, message)],
                                     BuildMessages("sys",
                                        BuildUserMessageWithContext(
                                           history, message)),
                                     None, NoneInt)]
                             /\ task' = [task EXCEPT ![t] =
                                           [g EXCEPT !.pc = "generating",
                                                     !.gateway_called = TRUE]]
                        ELSE LET done == AddMessage(conv, session_id,
                                            Entry("assistant",
                                                  DefaultReply, t))
                             IN  /\ agents' = [agents EXCEPT
                                         ![obj].conversations = done]
                                 /\ task' = [task EXCEPT ![t] =
                                       [Result(g, "success", None) EXCEPT
                                          !.reply = DefaultReply,
                                          !.conversation_length =
                                             Len(History(done, session_id))]]
                                 /\ UNCHANGED call
    /\ UNCHANGED <<registered_agents, active_agents, manager_deps>>
    /\ UNCHANGED <<gateway_vars, http, front_vars>>

\* a process that lets the exception of the gateway call through: the
\* result is an error
ProcessResumeSurfacesError(t) ==
    LET f == task[t]
        c == call[t]
        conv == agents[f.obj].conversations
        done == AddMessage(conv, f.session_id,
                           Entry("assistant", c.result.text, t))
    IN
    /\ f.pc = "generating"
    /\ c.pc \in {"returned", "raised"}
    /\ IF c.pc = "raised"
       THEN /\ task' = [task EXCEPT ![t] =
                         Result(f, "error", "gateway failed")]
            /\ UNCHANGED agents
       ELSE /\ agents' = [agents EXCEPT ![f.obj].conversations = done]
            /\ task' = [task EXCEPT ![t] =
                  [Result(f, "success", None) EXCEPT
                     !.reply = c.result.text,
                     !.conversation_length =
                        Len(History(done, f.session_id))]]
    /\ call' = [call EXCEPT ![t] = IdleFrame]
    /\ UNCHANGED <<registered_agents, active_agents, manager_deps>>
    /\ UNCHANGED <<gateway_vars, http, front_vars>>

\* generate_simple has returned or raised: _generate_response takes the
\* stripped text, or the default reply when the call raised or the text is
\* blank; process appends the assistant message and returns success
ProcessResume(t) ==
    LET f == task[t]
        c == call[t]
        reply == IF c.pc = "returned" /\ Strip(c.result.text) # ""
                 THEN Strip(c.result.text)
                 ELSE DefaultReply
        done == AddMessage(agents[f.obj].conversations, f.session_id,
                           Entry("assistant", reply, t))
    IN
    /\ f.pc = "generating"
    /\ c.pc \in {"returned", "raised"}
    /\ agents' = [agents EXCEPT ![f.obj].conversations = done]
    /\ task' = [task EXCEPT ![t] =
          [Result(f, "success", None) EXCEPT
             !.reply = reply,
             !.error = IF c.pc = "raised" THEN "gateway failed"
                       ELSE IF reply # c.result.text THEN "blank reply"
                       ELSE None,
             !.gateway_log = c.log,
             !.conversation_length = Len(History(done, f.session_id))]]
    /\ call' = [call EXCEPT ![t] = IdleFrame]
    /\ UNCHANGED <<registered_agents, active_agents, manager_deps>>
    /\ UNCHANGED <<gateway_vars, http, front_vars>>

\* the run modes of PuqeeApplication
Modes == {"http", "cli", "chat"}

\* PuqeeApplication._initialize_api_server after the gateway is initialized:
\* the server of the mode is built and its initialize injects the
\* dependencies, registers the ChatBot type and calls create_agent for the
\* default ChatBot, up to `await agent.initialize()`
AppInitializeServer(t, d) ==
    LET f == EnterTask("create_agent", "chatbot", default_chatbot_id) IN
    /\ app.pc = "constructed"
    /\ app.mode \in Modes
    /\ lifecycle = "initialized"
    /\ task[t].pc = "idle"
    /\ Len(agents) < MaxAgents
    /\ default_chatbot_id \notin DOMAIN active_agents
    /\ manager_deps' = d
    /\ registered_agents' = registered_agents \cup {"chatbot"}
    /\ agents' = Append(agents, NewAgent(default_chatbot_id, "chatbot", d))
    /\ task' = [task EXCEPT ![t] =
                  [f EXCEPT !.pc = "initializing", !.obj = Len(agents) + 1,
                            !.registered_before = registered_agents',
                            !.deps_before = d]]
    /\ app' = [app EXCEPT !.pc = "initializing",
                          !.http_server = (app.mode = "http"),
                          !.api_server = (app.mode # "http")]
    /\ UNCHANGED <<active_agents, gateway_vars, call, http,
                   conversation_manager>>

\* the server's initialize has returned: the application runs
AppRun(t) ==
    /\ app.pc = "initializing"
    /\ task[t].pc = "returned"
    /\ task' = [task EXCEPT ![t] = IdleTask]
    /\ app' = [app EXCEPT !.pc = "running"]
    /\ UNCHANGED <<registered_agents, active_agents, agents, manager_deps>>
    /\ UNCHANGED <<gateway_vars, call, http, conversation_manager>>

\* APIServer.create_chatbot: create_agent with the type chatbot
CreateChatbot(t, agent_id) == CreateAgent(t, "chatbot", agent_id, TRUE)

\* the dict create_chatbot makes of the outcome of create_agent
CreateChatbotResult(f) ==
    IF f.pc = "raised" THEN "error" ELSE "success"

\* a remove_chatbot that does not look at the id
RemoveChatbotAny(t, agent_id) == RemoveAgent(t, agent_id)
\* APIServer.remove_chatbot: an error for the default id, else remove_agent
RemoveChatbot(t, agent_id) ==
    IF agent_id = default_chatbot_id
    THEN /\ task[t].pc = "idle"
         /\ task' = [task EXCEPT ![t] =
               [EnterTask("remove_chatbot", None, agent_id)
                  EXCEPT !.pc = "returned", !.result = "error"]]
         /\ UNCHANGED <<registered_agents, active_agents, agents,
                        manager_deps>>
         /\ UNCHANGED <<gateway_vars, call, http, front_vars>>
    ELSE RemoveAgent(t, agent_id)

\* APIServer.chat_with_bot
ChatWithBot(t, message, session_id) ==
    ProcessRequest(t, default_chatbot_id, session_id, message, "returns")

\* PuqeeApplication.shutdown up to the first await that does something:
\* HTTPServer.shutdown and SimpleHTTPServer.shutdown stop serving and leave
\* the agents alone; APIServer.shutdown calls shutdown_all_agents
AppShutdown(t) ==
    LET f == EnterTask("shutdown_all_agents", None, None) IN
    /\ app.pc = "running"
    /\ task[t].pc = "idle"
    /\ call[t].pc = "idle"
    /\ IF ~app.api_server
       THEN /\ app' = [app EXCEPT !.pc = "gateway"]
            /\ UNCHANGED <<task, active_agents>>
       ELSE /\ app' = [app EXCEPT !.pc = "agents"]
            /\ IF DOMAIN active_agents = {}
               THEN /\ task' = [task EXCEPT ![t] =
                                  [f EXCEPT !.pc = "returned"]]
                    /\ active_agents' = EmptyMap
               ELSE /\ task' = [task EXCEPT ![t] =
                                  [f EXCEPT !.pc = "gathering",
                                            !.pending = ActiveObjects]]
                    /\ UNCHANGED active_agents
    /\ UNCHANGED <<registered_agents, agents, manager_deps>>
    /\ UNCHANGED <<gateway_vars, call, http, conversation_manager>>

\* the servers are shut down: PuqeeApplication.shutdown goes on to the
\* gateway
AppServersDown(t) ==
    /\ app.pc = "agents"
    /\ task[t].pc = "returned"
    /\ task' = [task EXCEPT ![t] = IdleTask]
    /\ app' = [app EXCEPT !.pc = "gateway",
                          !.events = Append(@, "agents")]
    /\ UNCHANGED <<registered_agents, active_agents, agents, manager_deps>>
    /\ UNCHANGED <<gateway_vars, call, http, conversation_manager>>

\* llm_gateway.shutdown() has returned: the application is closed
AppStopped ==
    /\ app.pc = "gateway"
    /\ lifecycle = "shutdown"
    /\ app' = [app EXCEPT !.pc = "stopped",
                          !.events = Append(@, "gateway")]
    /\ UNCHANGED <<gateway_vars, call, manager_vars, http,
                   conversation_manager>>

\* add_message on the ConversationManager on its own; the message carries
\* the number of the call as its content
ConvAddMessage(session_id, role) ==
    LET cm == conversation_manager
        message == ChatMessage(role, cm.count + 1)
    IN
    /\ cm.count < MaxAdded
    /\ conversation_manager' =
          [cm EXCEPT !.conversations =
                        AddMessageTo(cm.max_history, @, session_id, message),
                     !.added = SetKey(@, session_id,
                                      Append(History(@, session_id), message)),
                     !.count = @ + 1]
    /\ UNCHANGED <<gateway_vars, call, manager_vars, http, app>>

\* clear_conversation on the ConversationManager on its own
ConvClear(session_id) ==
    LET cm == conversation_manager IN
    /\ conversation_manager' =
          [cm EXCEPT !.conversations = ClearConversation(@, session_id),
                     !.added = ClearConversation(@, session_id)]
    /\ UNCHANGED <<gateway_vars, call, manager_vars, http, app>>

\* the answer has been sent
HTTPFinish ==
    /\ http.pc = "responded"
    /\ http' = IdleRequest
    /\ UNCHANGED <<gateway_vars, call, manager_vars, front_vars>>

\* ------------------------------------------------------------------ inputs
Contents == {"hi", "q"}
SystemPrompts == {"", "sys"}

MessageLists ==
    { <<>>,
      <<LLMMessage("user", "hi")>>,
      <<LLMMessage("system", "sys"), LLMMessage("user", "q")>> }

\* the provider argument: omitted, empty, or a name
ProviderArgs == {None, ""} \cup CallNames
RetryArgs == {NoneInt} \cup (0..MaxRetry)

\* ------------------------------------------------------------ specifications
FailureKinds == UpstreamFailures \cup {"config"}

\* one caller, every input
Next ==
    \/ Initialize
    \/ Shutdown
    \/ \E m \in MessageLists, p \in ProviderArgs, r \in RetryArgs :
          Generate(1, m, p, r)
    \/ \E sp \in SystemPrompts, um \in Contents, p \in ProviderArgs :
          GenerateSimple(1, sp, um, p)
    \/ AdapterReturns(1)
    \/ \E k \in FailureKinds : AdapterRaises(1, k)
    \/ SleepReturns(1)
    \/ Cancel(1)
    \/ Finish(1)

Spec == Init /\ [][Next]_vars

\* concurrent callers: caller c sends its own message list and names a
\* provider; the retry count comes from the configuration
ConcConfigs ==
    { c \in Configs :
        /\ c.default_provider = None
        /\ c.retry_count = NoneInt
        /\ c.retry_delay = NoneInt
        /\ \/ c.mock_llm /\ c.sections = [n \in RealNames |-> "absent"]
           \/ ~c.mock_llm /\ c.sections = [n \in RealNames |-> "complete"] }

CallerMessages(c) ==
    IF c % 2 = 1 THEN <<LLMMessage("user", "hi")>>
    ELSE <<LLMMessage("system", "sys"), LLMMessage("user", "q")>>

\* the provider names the concurrent callers pass
ConcNames == {"openai", "claude"}

InitConc ==
    /\ config \in ConcConfigs
    /\ providers = EmptyMap
    /\ default_provider = NoAdapter
    /\ inits = 0
    /\ lifecycle = "constructed"
    /\ call = [c \in Callers |-> IdleFrame]
    /\ ManagerInit
    /\ FrontInit

NextConc ==
    \/ Initialize
    \/ Shutdown
    \/ \E c \in Callers, p \in ConcNames :
          Generate(c, CallerMessages(c), p, NoneInt)
    \/ \E c \in Callers : AdapterReturns(c)
    \/ \E c \in Callers : AdapterRaises(c, "timeout")
    \/ \E c \in Callers : SleepReturns(c)
    \/ \E c \in Callers : Finish(c)

SpecConc == InitConc /\ [][NextConc]_vars

\* one caller and a logger whose debug call may raise
LogRetryArgs == {NoneInt, 1, 2}

NextLog ==
    \/ Initialize
    \/ Shutdown
    \/ \E p \in {None} \cup RealNames, r \in LogRetryArgs :
          Generate(1, CallerMessages(1), p, r)
    \/ AdapterReturns(1)
    \/ ReportRaises(1)
    \/ AdapterRaises(1, "timeout")
    \/ SleepReturns(1)
    \/ Finish(1)

SpecLog == InitConc /\ [][NextLog]_vars

\* the Claude adapter on every message list of up to MaxMessages messages
Roles == {"system", "user", "assistant"}

ClaudeMessageLists ==
    UNION { [1..n -> { LLMMessage(r, c) : r \in Roles, c \in Contents }] :
              n \in 0..MaxMessages }

InitClaude ==
    /\ InitConc
    /\ ~config.mock_llm

NextClaude ==
    \/ Initialize
    \/ \E m \in ClaudeMessageLists : Generate(1, m, "claude", 1)
    \/ AdapterReturns(1)
    \/ Finish(1)

SpecClaude == InitClaude /\ [][NextClaude]_vars

\* one caller drives the AgentManager: every operation has finished before
\* the next one starts
NextAgents ==
    \/ task[1].pc = "idle" /\ \E ty \in AgentTypes : RegisterAgent(ty)
    \/ task[1].pc = "idle" /\ \E d \in Dependencies : InjectDependencies(d)
    \/ \E ty \in AgentTypes, id \in AgentIds, ok \in BOOLEAN :
          CreateAgent(1, ty, id, ok)
    \/ InitializeReturns(1)
    \/ InitializeRaises(1)
    \/ \E id \in AgentIds : RemoveAgent(1, id)
    \/ ShutdownReturns(1)
    \/ ShutdownRaises(1)
    \/ TaskFinish(1)

SpecAgents == InitConc /\ [][NextAgents]_vars

\* a manager with the mock gateway configuration
InitManager ==
    /\ InitConc
    /\ config.mock_llm

\* one caller creates ChatBot agents, removes them and shuts all of them
\* down, every operation finishing before the next one starts
NextShutdownAll ==
    \/ task[1].pc = "idle" /\ RegisterAgent("chatbot")
    \/ \E id \in AgentIds : CreateAgent(1, "chatbot", id, TRUE)
    \/ InitializeReturns(1)
    \/ \E id \in AgentIds : RemoveAgent(1, id)
    \/ ShutdownReturns(1)
    \/ ShutdownRaises(1)
    \/ ShutdownAllAgents(1)
    \/ \E o \in 1..MaxAgents : SafeShutdownReturns(1, o)
    \/ \E o \in 1..MaxAgents : SafeShutdownRaises(1, o)
    \/ ShutdownAllReturns(1)
    \/ TaskFinish(1)

SpecShutdownAll == InitManager /\ [][NextShutdownAll]_vars

\* a front end: its initialize (dependencies, ChatBot type, default
\* ChatBot) and the chat requests it serves one at a time
NextHTTP ==
    \/ Initialize
    \/ task[1].pc = "idle" /\ InjectDependencies(1)
    \/ task[1].pc = "idle" /\ RegisterAgent("chatbot")
    \/ CreateAgent(1, "chatbot", default_chatbot_id, TRUE)
    \/ InitializeReturns(1)
    \/ TaskFinish(1)
    \/ \E server \in {"fastapi", "simple"}, m \in ChatInputs :
          ChatRequest(server, m)
    \/ AdapterReturns(1)
    \/ AdapterRaises(1, "timeout")
    \/ SleepReturns(1)
    \/ ChatResume
    \/ HTTPFinish

SpecHTTP == InitConc /\ [][NextHTTP]_vars

\* one caller sends requests through process_request, one at a time, to a
\* default ChatBot (created with or without a gateway injected) and to an
\* agent of another type, while the gateway is initialized and shut down
ProcessInputs == {None, "", " ", "hi"}

NextProcess ==
    \/ Initialize
    \/ Shutdown
    \/ task[1].pc = "idle" /\ InjectDependencies(1)
    \/ task[1].pc = "idle" /\ \E ty \in AgentTypes : RegisterAgent(ty)
    \/ CreateAgent(1, "chatbot", default_chatbot_id, TRUE)
    \/ CreateAgent(1, "demo", "a2", TRUE)
    \/ InitializeReturns(1)
    \/ \E id \in AgentIds, sid \in Sessions, m \in ProcessInputs,
          out \in {"returns", "raises"} :
          ProcessRequest(1, id, sid, m, out)
    \/ AdapterReturns(1)
    \/ \E text \in {"", " "} : AdapterReturnsText(1, text)
    \/ AdapterRaises(1, "timeout")
    \/ SleepReturns(1)
    \/ ProcessResume(1)
    \/ TaskFinish(1)

SpecProcess == InitConc /\ [][NextProcess]_vars

\* a ConversationManager on its own, built with a positive max_history,
\* given any sequence of add_message and clear_conversation on two sessions
InitConv ==
    /\ config \in ConcConfigs
    /\ config.mock_llm
    /\ providers = EmptyMap
    /\ default_provider = NoAdapter
    /\ inits = 0
    /\ lifecycle = "constructed"
    /\ call = [c \in Callers |-> IdleFrame]
    /\ ManagerInit
    /\ http = IdleRequest
    /\ app = NewApplication(None)
    /\ conversation_manager \in
          {NewConversationManager(max) : max \in 1..MaxHistory}

NextConv ==
    \/ \E sid \in Sessions, role \in {"user", "assistant"} :
          ConvAddMessage(sid, role)
    \/ \E sid \in Sessions : ConvClear(sid)

SpecConv == InitConv /\ [][NextConv]_vars

\* a PuqeeApplication in one of its modes: it initializes the gateway and
\* its server, serves create_chatbot, remove_chatbot and chat_with_bot one
\* at a time, and shuts down
InitApp ==
    /\ config \in ConcConfigs
    /\ providers = EmptyMap
    /\ default_provider = NoAdapter
    /\ inits = 0
    /\ lifecycle = "constructed"
    /\ call = [c \in Callers |-> IdleFrame]
    /\ ManagerInit
    /\ http = IdleRequest
    /\ conversation_manager = NewConversationManager(100)
    /\ app \in {NewApplication(mode) : mode \in Modes}

NextApp ==
    \/ app.pc = "constructed" /\ lifecycle = "constructed" /\ Initialize
    \/ AppInitializeServer(1, 1)
    \/ InitializeReturns(1)
    \/ AppRun(1)
    \/ \E id \in AgentIds :
          app.pc = "running" /\ app.api_server /\ CreateChatbot(1, id)
    \/ \E id \in AgentIds :
          app.pc = "running" /\ app.api_server /\ RemoveChatbot(1, id)
    \/ ShutdownReturns(1)
    \/ \E m \in {" ", "hi"} :
          app.pc = "running" /\ ChatWithBot(1, m, "default")
    \/ AdapterReturns(1)
    \/ AdapterRaises(1, "timeout")
    \/ SleepReturns(1)
    \/ ProcessResume(1)
    \/ app.pc = "running" /\ TaskFinish(1)
    \/ AppShutdown(1)
    \/ \E o \in 1..MaxAgents : SafeShutdownReturns(1, o)
    \/ ShutdownAllReturns(1)
    \/ AppServersDown(1)
    \/ app.pc = "gateway" /\ lifecycle # "shutdown" /\ Shutdown
    \/ AppStopped

SpecApp == InitApp /\ [][NextApp]_vars

\* several callers create agents of a registered type whose initialization
\* suspends, so that their create_agent calls interleave at
\* `await agent.initialize()`
NextCreate ==
    \/ (\A t \in Callers : task[t].pc = "idle") /\ RegisterAgent("demo")
    \/ \E t \in Callers, id \in AgentIds : CreateAgent(t, "demo", id, TRUE)
    \/ \E t \in Callers : InitializeReturns(t)
    \/ \E t \in Callers : InitializeRaises(t)
    \/ \E t \in Callers : TaskFinish(t)

SpecCreate == InitManager /\ [][NextCreate]_vars

\* several callers send messages to the default ChatBot concurrently; the
\* gateway is initialized, so every process call suspends in the adapter
NextChat ==
    \/ lifecycle = "constructed" /\ Initialize
    \/ (\A t \in Callers : task[t].pc = "idle") /\ InjectDependencies(1)
    \/ (\A t \in Callers : task[t].pc = "idle") /\ RegisterAgent("chatbot")
    \/ manager_deps # 0 /\ CreateAgent(1, "chatbot", default_chatbot_id, TRUE)
    \/ InitializeReturns(1)
    \/ \E t \in Callers, sid \in Sessions, m \in {" ", "hi"} :
          /\ lifecycle = "initialized"
          /\ ProcessRequest(t, default_chatbot_id, sid, m, "returns")
    \/ \E t \in Callers : AdapterReturns(t)
    \/ \E t \in Callers : ProcessResume(t)
    \/ \E t \in Callers : TaskFinish(t)

SpecChat == InitManager /\ [][NextChat]_vars

\* one caller whose awaited adapter calls and sleeps complete: an adapter
\* invocation eventually returns or raises, a sleep eventually returns
NextLive ==
    \/ Initialize
    \/ Shutdown
    \/ \E p \in {None, "claude"}, r \in RetryArgs :
          Generate(1, CallerMessages(1), p, r)
    \/ AdapterReturns(1)
    \/ \E k \in UpstreamFailures : AdapterRaises(1, k)
    \/ SleepReturns(1)
    \/ Finish(1)

SpecLive ==
    /\ InitConc
    /\ [][NextLive]_vars
    /\ WF_vars(AdapterReturns(1) \/ \E k \in UpstreamFailures : AdapterRaises(1, k))
    /\ WF_vars(SleepReturns(1))

\* ------------------------------------------------------------------ claims
\* the provider argument names a provider (it is given and not empty)
Named(f) == f.provider_arg # None /\ f.provider_arg # ""

\* the default provider name of the configuration
DefaultName == Get(config.default_provider, "openai")

\* number of events of kind e in a log
RECURSIVE CountEv(_, _)
CountEv(log, e) ==
    IF log = <<>> THEN 0
    ELSE (IF Head(log).ev = e THEN 1 ELSE 0) + CountEv(Tail(log), e)

\* C1: a generate call (with messages) whose explicit provider name is not
\* a key of the provider mapping fails with the provider-not-found error,
\* invokes no adapter and does not consult the default, whatever the
\* gateway state.
C1_UnknownProviderFails ==
    \A c \in Callers :
        LET f == call[c] IN
        (f.pc # "idle" /\ Named(f) /\ f.messages # <<>>
            /\ f.provider_arg \notin DOMAIN f.providers_at_call)
        => /\ f.pc = "raised"
           /\ f.error = NoProviderError
           /\ f.llm_provider = NoAdapter
           /\ f.received = <<>>

\* C2: a generate call with an empty message list fails with a caller
\* error: no adapter is invoked, the retry loop is not the source of the
\* error and no backoff sleep happens.
C2_EmptyMessagesFail ==
    \A c \in Callers :
        LET f == call[c] IN
        (f.pc # "idle" /\ f.messages = <<>>)
        => /\ f.pc = "raised"
           /\ f.error.type # "Exception"
           /\ f.received = <<>>
           /\ f.log = <<>>

\* C3: a generate call with the provider omitted dispatches to the adapter
\* registered under the configured default name; when no default is set or
\* that name was not registered it fails at once with the no-provider
\* error, having invoked no adapter and slept for no backoff.
C3_OmittedProviderUsesDefault ==
    \A c \in Callers :
        LET f == call[c] IN
        (f.pc # "idle" /\ ~Named(f))
        => IF /\ f.default_at_call # NoAdapter
              /\ DefaultName \in DOMAIN f.providers_at_call
           THEN /\ f.llm_provider = f.providers_at_call[DefaultName]
                /\ f.error # NoProviderError
                /\ \A i \in 1..Len(f.received) :
                      f.received[i].adapter = f.providers_at_call[DefaultName]
           ELSE /\ f.pc = "raised"
                /\ f.error = NoProviderError
                /\ f.received = <<>>
                /\ f.log = <<>>

\* a call without provider failed fast: other providers were registered
\* but the configured default name was not
C3_Witness ==
    \E c \in Callers :
        LET f == call[c] IN
        /\ f.pc = "raised" /\ f.provider_arg = None /\ f.messages # <<>>
        /\ f.error = NoProviderError
        /\ DOMAIN f.providers_at_call # {}
        /\ DefaultName \notin DOMAIN f.providers_at_call

\* max_attempts of a call: its retry_count argument, else the configured
\* retry count, else 3
MaxAttempts(f) ==
    IF f.retry_arg # NoneInt THEN f.retry_arg
    ELSE IF config.retry_count # NoneInt THEN config.retry_count
    ELSE 3

\* base_delay: the configured retry delay, else 1
BaseDelay == IF config.retry_delay # NoneInt THEN config.retry_delay ELSE 1

RECURSIVE SumSleeps(_)
SumSleeps(log) ==
    IF log = <<>> THEN 0
    ELSE (IF Head(log).ev = "sleep" THEN Head(log).n ELSE 0)
         + SumSleeps(Tail(log))

\* C4: when the adapter fails on its first N-1 invocations and succeeds on
\* invocation N (1 <= N <= max_attempts), generate returns the response of
\* invocation N and has invoked the adapter exactly N times; nothing
\* happens in the call after the first success.
C4_SuccessAtAttemptN ==
    \A c \in Callers :
        LET f == call[c]
            N == Len(f.received)
        IN  /\ CountEv(f.log, "ok") > 0
               => /\ f.pc = "returned"
                  /\ CountEv(f.log, "ok") = 1
                  /\ f.log[Len(f.log)] = [ev |-> "ok", n |-> N]
            /\ f.pc = "raised" => CountEv(f.log, "ok") = 0
            /\ f.pc = "returned"
               => /\ 1 <= N /\ N <= MaxAttempts(f)
                  /\ CountEv(f.log, "invoke") = N
                  /\ CountEv(f.log, "fail") = N - 1
                  /\ Len(f.errors) = N - 1
                  /\ f.response = AdapterResponse(f.received[N].adapter,
                                                  f.received[N].messages)
                  /\ f.kind = "generate" => f.result = f.response

\* the third invocation of a call succeeded after two failures
C4_Witness ==
    \E c \in Callers :
        /\ call[c].pc = "returned"
        /\ Len(call[c].received) = 3
        /\ Len(call[c].errors) = 2
        /\ MaxAttempts(call[c]) = 3

\* C5: when every invocation fails, of whatever kind, generate invokes the
\* adapter exactly max_attempts times and then raises the exhaustion error;
\* it neither gives up earlier nor makes an extra attempt.
C5_ExhaustionAfterMaxAttempts ==
    \A c \in Callers :
        LET f == call[c] IN
        /\ (f.pc = "raised" /\ f.llm_provider # NoAdapter)
           => /\ f.error.type = "Exception"
              /\ Len(f.received) = MaxAttempts(f)
              /\ Len(f.errors) = MaxAttempts(f)
              /\ CountEv(f.log, "fail") = MaxAttempts(f)
        /\ f.pc \in {"invoking", "sleeping"}
           => /\ Len(f.received) <= MaxAttempts(f)
              /\ Len(f.errors) < MaxAttempts(f)

\* three attempts failed in different ways and the call then raised
C5_Witness ==
    \E c \in Callers :
        /\ call[c].pc = "raised"
        /\ call[c].errors = <<"timeout", "status", "timeout">>

\* C6: in one generate call no sleep precedes attempt 1, the sleep before
\* attempt k >= 2 lasts base_delay * (k-1), and no sleep follows the last
\* failed attempt; a call exhausting 3 attempts sleeps base_delay * 1 +
\* base_delay * 2 in total.
C6_LinearBackoff ==
    \A c \in Callers :
        LET f == call[c]
            log == f.log
        IN  /\ \A i \in 1..Len(log) :
                 /\ (log[i].ev = "invoke" /\ log[i].n = 1) => i = 1
                 /\ (log[i].ev = "invoke" /\ log[i].n >= 2)
                    => /\ i >= 3
                       /\ log[i-2] = [ev |-> "sleep",
                                      n |-> BaseDelay * (log[i].n - 1)]
                 /\ log[i].ev = "sleep"
                    => /\ i >= 2 /\ log[i-1].ev = "fail"
                       /\ log[i-1].n < MaxAttempts(f)
            /\ f.pc \in {"invoking", "returned", "raised"} /\ log # <<>>
               => CountEv(log, "sleep") = CountEv(log, "invoke") - 1
            /\ (f.pc = "raised" /\ log # <<>>) => log[Len(log)].ev = "fail"
            /\ (f.pc = "raised" /\ log # <<>> /\ MaxAttempts(f) = 3)
               => SumSleeps(log) = BaseDelay * 1 + BaseDelay * 2

\* a call with base_delay 2 exhausted four attempts
C6_Witness ==
    \E c \in Callers :
        /\ call[c].pc = "raised"
        /\ BaseDelay = 2
        /\ Len(call[c].errors) = 4
        /\ SumSleeps(call[c].log) = 12

\* C7: the attempts of one call are strictly sequential: attempt k+1 starts
\* only after attempt k has failed and the backoff sleep has returned, and
\* at most one adapter invocation of the call is in flight.
C7_SequentialAttempts ==
    \A c \in Callers :
        LET f == call[c]
            log == f.log
        IN  /\ f.inflight \in {0, 1}
            /\ f.inflight = 1 <=> f.pc = "invoking"
            /\ \A i \in 1..Len(log) :
                 /\ (log[i].ev = "invoke" /\ log[i].n > 1)
                    => /\ i >= 4
                       /\ log[i-1].ev = "wake"
                       /\ log[i-2].ev = "sleep"
                       /\ log[i-3] = [ev |-> "fail", n |-> log[i].n - 1]
                 /\ (log[i].ev = "invoke" /\ i < Len(log))
                    => /\ log[i+1].ev \in {"ok", "fail", "cancel"}
                       /\ log[i+1].n = log[i].n

\* the third attempt of a call is in flight
C7_Witness ==
    \E c \in Callers :
        /\ call[c].pc = "invoking"
        /\ Len(call[c].received) = 3
        /\ call[c].inflight = 1

\* C8: the exhaustion error raised after all attempts failed carries the
\* error of the final attempt, the number of attempts made and the provider
\* name; it differs in kind from the no-provider error and is never raised
\* for caller misuse (unknown provider, empty input).
C8_ExhaustionErrorContents ==
    \A c \in Callers :
        LET f == call[c] IN
        (f.pc = "raised" /\ f.error.type = "Exception" /\ f.errors # <<>>)
        => /\ f.error.type # NoProviderError.type
           /\ f.error.last = f.errors[Len(f.errors)]
           /\ f.error.retried = Len(f.received)
           /\ f.messages # <<>>
           /\ ~(Named(f) /\ f.provider_arg \notin DOMAIN f.providers_at_call)
           /\ "provider" \in DOMAIN f.error
           /\ f.error.provider = f.llm_provider.cls

\* C9: generate_simple hands generate one system message only when
\* system_prompt is non-empty, then exactly one user message holding
\* user_message; the provider argument is forwarded unchanged and the
\* value returned is the content field of the response of generate.
C9_GenerateSimple ==
    \A c \in Callers :
        LET f == call[c] IN
        (f.kind = "simple" /\ f.pc # "idle")
        => /\ f.messages =
                IF f.system_prompt # ""
                THEN <<[role |-> "system", content |-> f.system_prompt],
                       [role |-> "user", content |-> f.user_message]>>
                ELSE <<[role |-> "user", content |-> f.user_message]>>
           /\ f.provider = f.provider_arg
           /\ \A i \in 1..Len(f.received) : f.received[i].messages = f.messages
           /\ f.pc = "returned"
              => /\ f.response.content \in
                      { AdapterResponse(f.received[i].adapter,
                                        f.messages).content :
                          i \in 1..Len(f.received) }
                 /\ f.result = f.response.content

\* generate_simple with an empty system prompt returned after its adapter
\* received the single user message
C9_Witness ==
    \E c \in Callers :
        LET f == call[c] IN
        /\ f.kind = "simple" /\ f.pc = "returned"
        /\ f.system_prompt = ""
        /\ Len(f.received) >= 1
        /\ Len(f.received[1].messages) = 1

\* C10: concurrent generate calls that each name a registered provider
\* invoke only the adapter registered under their own name, with their own
\* messages, and return the response that adapter produced for them.
C10_NoCrossContamination ==
    \A c \in Callers :
        LET f == call[c] IN
        (f.pc # "idle" /\ Named(f)
            /\ f.provider_arg \in DOMAIN f.providers_at_call)
        => LET own == f.providers_at_call[f.provider_arg] IN
           /\ \A i \in 1..Len(f.received) :
                 /\ f.received[i].adapter = own
                 /\ f.received[i].messages = CallerMessages(c)
           /\ f.pc = "returned"
              => f.result = AdapterResponse(own, CallerMessages(c))

\* two calls naming different providers overlap: one is in its second
\* adapter invocation while the other, already retried once, sleeps
C10_Witness ==
    \E c1, c2 \in Callers :
        /\ c1 # c2
        /\ call[c1].pc = "invoking" /\ call[c2].pc = "sleeping"
        /\ call[c1].provider_arg # call[c2].provider_arg
        /\ call[c1].llm_provider # call[c2].llm_provider
        /\ call[c1].messages # call[c2].messages
        /\ Len(call[c1].received) = 2 /\ Len(call[c2].received) = 2

\* C11: the default adapter of the gateway is always the adapter currently
\* registered under the configured default name, and none when that name
\* is not registered; so a call with the provider omitted invokes only the
\* adapter registered under that name when the call is made (the newest one
\* after a replacement) and, when the name is no longer registered, fails
\* with the no-provider error without invoking any adapter.
C11_DefaultFollowsRegistration ==
    /\ default_provider = IF DefaultName \in DOMAIN providers
                          THEN providers[DefaultName]
                          ELSE NoAdapter
    /\ \A c \in Callers :
          LET f == call[c] IN
          (f.pc # "idle" /\ ~Named(f))
          => /\ f.default_at_call =
                   IF DefaultName \in DOMAIN f.providers_at_call
                   THEN f.providers_at_call[DefaultName]
                   ELSE NoAdapter
             /\ f.llm_provider = f.default_at_call
             /\ \A i \in 1..Len(f.received) :
                   /\ f.received[i].adapter = f.default_at_call
                   /\ f.received[i].adapter.gen = f.inits_at_call
             /\ f.default_at_call = NoAdapter
                => /\ f.pc = "raised"
                   /\ f.error = NoProviderError
                   /\ f.received = <<>>

\* the default adapter was replaced by a second initialize and a call
\* without provider has invoked the replacement
C11_Witness ==
    \E c \in Callers :
        LET f == call[c] IN
        /\ ~Named(f)
        /\ Len(f.received) >= 1
        /\ f.received[1].adapter.gen = 2
        /\ f.received[1].adapter = f.providers_at_call[DefaultName]

\* C12: once the adapter has returned a response to a call, the call
\* returns that response and does nothing more, even when reporting the
\* success raises: no further attempt, no sleep, no error.
C12_ReportFailureKeepsResult ==
    \A c \in Callers :
        LET f == call[c] IN
        CountEv(f.log, "ok") > 0
        => /\ f.pc = "returned"
           /\ f.result = f.response
           /\ f.error = NoError
           /\ f.log[Len(f.log)].ev = "ok"

\* C13: a call cancelled while it awaits the adapter or the backoff sleep
\* ends with the cancellation itself: nothing happens in the call after
\* the cancellation (no further invocation, no sleep), the cancellation is
\* not recorded as a failed attempt and never becomes the exhaustion error.
C13_CancellationUnwinds ==
    \A c \in Callers :
        LET f == call[c] IN
        /\ \A i \in 1..Len(f.errors) : f.errors[i] # CancelledError.msg
        /\ f.last_error # CancelledError
        /\ f.pc = "raised" => f.error.type # CancelledError.type
        /\ f.pc = "cancelled" <=> CountEv(f.log, "cancel") > 0
        /\ f.pc = "cancelled"
           => /\ f.error = CancelledError
              /\ CountEv(f.log, "cancel") = 1
              /\ f.log[Len(f.log)].ev = "cancel"
              /\ f.inflight = 0
              /\ CountEv(f.log, "invoke") = Len(f.received)
              /\ CountEv(f.log, "fail") = Len(f.errors)
              /\ f.result = NoResult

\* a call was cancelled in the backoff sleep before its second attempt,
\* with attempts left
C13_Witness ==
    \E c \in Callers :
        LET f == call[c] IN
        /\ f.pc = "cancelled"
        /\ Len(f.log) >= 2
        /\ f.log[Len(f.log) - 1].ev = "sleep"
        /\ Len(f.received) = 1
        /\ MaxAttempts(f) = 3

\* C14: every call whose provider resolves invokes the adapter at least
\* once before it raises the exhaustion error, whatever retry count was
\* configured or passed (0 included).
C14_AtLeastOneAttempt ==
    \A c \in Callers :
        LET f == call[c] IN
        (f.pc = "raised" /\ f.llm_provider # NoAdapter)
        => /\ Len(f.received) >= 1
           /\ f.errors # <<>>

\* C15: a call whose provider resolved moves only from an attempt to its
\* success, to the backoff sleep before the next attempt, or to the
\* exhaustion error, and from a sleep only to the next attempt; a finished
\* call (returned or raised) makes no further attempt and no sleep, and it
\* has either a result or an error, never both. When every adapter
\* invocation eventually returns or fails, a call in progress eventually
\* returns a response or raises.
C15_CallTerminates ==
    /\ [][\A c \in Callers :
            LET f == call[c]
                g == call'[c]
            IN  f # g =>
                /\ f.pc = "idle" => g.pc \in {"invoking", "raised"}
                /\ f.pc = "invoking"
                   => /\ g.pc \in {"returned", "sleeping", "raised"}
                      /\ g.pc = "returned"
                         => g.result # NoResult /\ g.error = NoError
                      /\ g.pc = "raised"
                         => g.result = NoResult /\ g.error # NoError
                /\ f.pc = "sleeping"
                   => /\ g.pc = "invoking"
                      /\ Len(g.received) = Len(f.received) + 1
                /\ f.pc \in {"returned", "raised"} => g = IdleFrame]_vars
    /\ \A c \in {1} :
          (call[c].pc \in {"invoking", "sleeping"})
             ~> (call[c].pc \in {"returned", "raised"})

\* a call returned the response of its second attempt, the last one allowed
C15_Witness ==
    \E c \in Callers :
        LET f == call[c] IN
        /\ f.pc = "returned"
        /\ f.retry_arg = 2
        /\ Len(f.received) = 2
        /\ f.result # NoResult

\* C16: once shutdown has run and until initialize runs again, the
\* provider mapping is empty and no default adapter is set, and every
\* generate call made in that period, with or without a provider name,
\* raises the no-provider error without invoking an adapter or sleeping.
C16_NoCallsAfterShutdown ==
    /\ lifecycle = "shutdown"
       => providers = EmptyMap /\ default_provider = NoAdapter
    /\ \A c \in Callers :
          LET f == call[c] IN
          (f.pc # "idle" /\ f.lifecycle_at_call = "shutdown")
          => /\ f.pc = "raised"
             /\ f.error = NoProviderError
             /\ f.llm_provider = NoAdapter
             /\ f.received = <<>>
             /\ f.log = <<>>
             /\ f.inflight = 0

\* a call naming a provider that was registered before the shutdown, made
\* after a shutdown that followed an initialize, failed
C16_Witness ==
    \E c \in Callers :
        LET f == call[c] IN
        /\ f.pc = "raised"
        /\ f.lifecycle_at_call = "shutdown"
        /\ f.inits_at_call >= 1
        /\ f.provider_arg \in RealNames
        /\ config.sections[f.provider_arg] = "complete"
        /\ f.messages # <<>>

\* the contents of the system messages of a message list
SystemContents(messages) ==
    { messages[i].content :
        i \in { j \in 1..Len(messages) : messages[j].role = "system" } }

\* C18: the request the Claude adapter sends has no system-role turn, its
\* system field carries the content of every system message of the input,
\* and its turns are the non-system messages in their original order.
C18_ClaudeSystemMerged ==
    \A c \in Callers :
        LET f == call[c] IN
        (f.pc = "returned" /\ f.llm_provider.cls = "claude")
        => LET sent == f.response.content
               carried == IF sent.sys = None THEN {} ELSE {sent.sys}
           IN  /\ \A i \in 1..Len(sent.re) : sent.re[i].role # "system"
               /\ sent.re = [i \in 1..Len(SelectSeq2(f.messages, {"system"}))
                               |-> to_dict(SelectSeq2(f.messages, {"system"})[i])]
               /\ SystemContents(f.messages) \subseteq carried

\* the agent objects that existed when the call f was entered are as they
\* were then
AgentsUntouched(f) ==
    \A o \in 1..Len(f.agents_before) : agents[o] = f.agents_before[o]

\* C19: create_agent raises when the type is not registered, when the id is
\* already active or when the initialization of the new agent fails, and
\* then active_agents and the agents in it are as before the call (an
\* agent already under that id is kept and stays initialized); when it
\* returns, active_agents has gained exactly the new id, mapped to the new
\* agent, which is initialized and holds the manager's dependencies.
C19_CreateAgent ==
    \A t \in Callers :
        LET f == task[t] IN
        f.op = "create_agent"
        => /\ (\/ f.agent_type \notin f.registered_before
               \/ f.agent_id \in DOMAIN f.active_before)
              => f.pc = "raised"
           /\ f.pc = "raised"
              => /\ active_agents = f.active_before
                 /\ AgentsUntouched(f)
                 /\ f.error = "initialize failed"
                    => ~agents[f.obj].is_initialized
           /\ f.pc = "initializing"
              => /\ active_agents = f.active_before
                 /\ ~agents[f.obj].is_initialized
           /\ f.pc = "returned"
              => /\ f.agent_id \notin DOMAIN f.active_before
                 /\ active_agents = SetKey(f.active_before, f.agent_id, f.obj)
                 /\ f.obj \notin 1..Len(f.agents_before)
                 /\ AgentsUntouched(f)
                 /\ agents[f.obj] =
                       [NewAgent(f.agent_id, f.agent_type, manager_deps)
                          EXCEPT !.is_initialized = TRUE]

\* a create_agent call for an id that is already active has raised and
\* the agent under that id is still there and initialized
C19_Witness ==
    \E t \in Callers :
        LET f == task[t] IN
        /\ f.op = "create_agent"
        /\ f.pc = "raised"
        /\ f.error = "ValueError: id exists"
        /\ f.agent_type \in registered_agents
        /\ agents[active_agents[f.agent_id]].is_initialized
        /\ manager_deps # 0

\* C20: remove_agent returns False and changes nothing when the id is not
\* active; otherwise the agent is first shut down, while it is still in
\* active_agents, and then removed, and the call returns True; when the
\* shutdown raises, the call returns False and the agent is still in
\* active_agents and still marked initialized.
C20_RemoveAgent ==
    \A t \in Callers :
        LET f == task[t] IN
        f.op = "remove_agent"
        => /\ f.pc \in {"shutting_down", "returned"}
           /\ f.agent_id \notin DOMAIN f.active_before
              => /\ f.pc = "returned"
                 /\ f.result = "False"
                 /\ active_agents = f.active_before
                 /\ agents = f.agents_before
           /\ f.pc = "shutting_down"
              => /\ active_agents = f.active_before
                 /\ agents = f.agents_before
                 /\ f.obj = active_agents[f.agent_id]
           /\ (f.pc = "returned" /\ f.result = "True")
              => /\ f.agent_id \in DOMAIN f.active_before
                 /\ active_agents = RemoveKey(f.active_before, f.agent_id)
                 /\ ~agents[f.obj].is_initialized
                 /\ f.error = None
           /\ (f.pc = "returned" /\ f.agent_id \in DOMAIN f.active_before)
              => \/ f.result = "True"
                 \/ /\ f.result = "False"
                    /\ f.error = "cleanup failed"
                    /\ active_agents = f.active_before
                    /\ agents = f.agents_before
                    /\ agents[active_agents[f.agent_id]].is_initialized

\* remove_agent returned False because the shutdown of an active agent
\* raised
C20_Witness ==
    \E t \in Callers :
        LET f == task[t] IN
        /\ f.op = "remove_agent"
        /\ f.pc = "returned"
        /\ f.result = "False"
        /\ f.error = "cleanup failed"
        /\ f.agent_id \in DOMAIN active_agents
        /\ agents[active_agents[f.agent_id]].is_initialized

\* C17: the chat endpoint answers a request whose error is the caller's
\* (no message, an empty or a blank message) with a 4xx status code, never
\* with a 5xx one, and a request whose LLM call failed on every attempt
\* with a 5xx status code.
C17_ChatErrorStatus ==
    http.pc = "responded"
    => /\ http.kind = "caller_input"
          => http.status_code \in 400..499
       /\ http.kind = "upstream_exhausted"
          => http.status_code \in 500..599

\* the number of times x occurs in the sequence q
RECURSIVE Occurrences(_, _)
Occurrences(q, x) ==
    IF q = <<>> THEN 0
    ELSE (IF Head(q) = x THEN 1 ELSE 0) + Occurrences(Tail(q), x)

\* the objects a mapping of agent ids holds
ObjectsOf(m) == { m[i] : i \in DOMAIN m }

\* C21: shutdown_all_agents never raises; until it returns, active_agents
\* is as it was when the call started; when it has returned, active_agents
\* is empty and the shutdown of every agent that was active at the start,
\* and of no other agent, has been invoked exactly once, whether or not
\* some of these shutdowns raised.
C21_ShutdownAllAgents ==
    \A t \in Callers :
        LET f == task[t] IN
        f.op = "shutdown_all_agents"
        => /\ f.pc \in {"gathering", "returned"}
           /\ f.pc = "gathering" => active_agents = f.active_before
           /\ \A i \in 1..Len(f.invoked) :
                 /\ f.invoked[i] \in ObjectsOf(f.active_before)
                 /\ Occurrences(f.invoked, f.invoked[i]) = 1
           /\ f.pc = "returned"
              => /\ active_agents = EmptyMap
                 /\ \A o \in ObjectsOf(f.active_before) :
                       Occurrences(f.invoked, o) = 1

\* shutdown_all_agents returned for two active agents, one of which failed
\* to shut down and is still marked initialized
C21_Witness ==
    \E t \in Callers :
        LET f == task[t] IN
        /\ f.op = "shutdown_all_agents"
        /\ f.pc = "returned"
        /\ Cardinality(DOMAIN f.active_before) = 2
        /\ f.error = "cleanup failed"
        /\ \E o \in ObjectsOf(f.active_before) : agents[o].is_initialized
        /\ \E o \in ObjectsOf(f.active_before) : ~agents[o].is_initialized

\* C22: process_request never raises. For an id that is not active it
\* returns a result of status error that names the id, and no agent's
\* process is called; when the agent's process raises it returns a result
\* of status error; otherwise it returns the agent's result, and every
\* result carries the requested id as agent_id.
C22_ProcessRequest ==
    \A t \in Callers :
        LET f == task[t] IN
        f.op = "process_request"
        => /\ f.pc \in {"generating", "returned"}
           /\ f.pc = "generating" => f.agent_called
           /\ f.pc = "returned"
              => /\ f.result \in {"success", "error"}
                 /\ f.result_agent_id = f.agent_id
                 /\ f.agent_id \notin DOMAIN f.active_before
                    => /\ f.result = "error"
                       /\ f.error = "agent not found"
                       /\ ~f.agent_called
                       /\ agents = f.agents_before
                 /\ f.agent_id \in DOMAIN f.active_before
                    => /\ f.agent_called
                       /\ f.obj = f.active_before[f.agent_id]
                 /\ f.error = "process raised" => f.result = "error"

\* process_request returned an error result for an agent whose process
\* raised
C22_Witness ==
    \E t \in Callers :
        LET f == task[t] IN
        /\ f.op = "process_request"
        /\ f.pc = "returned"
        /\ f.agent_id \in DOMAIN active_agents
        /\ f.error = "process raised"
        /\ f.result = "error"

\* the ChatBot objects of the heap
ChatBots == {o \in 1..Len(agents) : agents[o].type = "chatbot"}

\* the history of a session of a ChatBot, now and when the call started
HistoryNow(f) == History(agents[f.obj].conversations, f.session_id)

HistoryBefore(f) ==
    History(f.agents_before[f.obj].conversations, f.session_id)

\* the caller's process call is between its two add_message calls
Generating(t, o, sid) ==
    /\ task[t].pc = "generating"
    /\ task[t].obj = o
    /\ task[t].session_id = sid

\* C23: a process call of a ChatBot that returns success has appended
\* exactly two messages to the history of its session, the user message and
\* then the assistant reply it returns, and reports as conversation_length
\* the length of that history; with calls made one after the other a
\* history therefore holds as many user as assistant messages, in turn.
C23_SuccessAppendsTwo ==
    /\ \A t \in Callers :
          LET f == task[t] IN
          (/\ f.op = "process_request"
           /\ f.pc = "returned"
           /\ f.result = "success"
           /\ f.obj \in ChatBots)
          => /\ HistoryNow(f) =
                   HistoryBefore(f) \o
                   <<Entry("user", f.message, t),
                     Entry("assistant", f.reply, t)>>
             /\ f.conversation_length = Len(HistoryNow(f))
             /\ f.reply # None
    /\ \A o \in ChatBots : \A sid \in DOMAIN agents[o].conversations :
          LET h == agents[o].conversations[sid]
              n == Len(h) \div 2
          IN  (\A t \in Callers : ~Generating(t, o, sid))
              => /\ Len(h) = 2 * n
                 /\ \A i \in 1..n :
                       /\ h[2 * i - 1].role = "user"
                       /\ h[2 * i].role = "assistant"

\* the second successful process call on a session returned; the reply came
\* from the gateway
C23_Witness ==
    \E t \in Callers :
        LET f == task[t] IN
        /\ f.op = "process_request"
        /\ f.pc = "returned"
        /\ f.result = "success"
        /\ f.obj \in ChatBots
        /\ Len(HistoryBefore(f)) = 2
        /\ f.conversation_length = 4
        /\ f.error = None
        /\ f.reply # DefaultReply

\* C24: a process call of a ChatBot that returns an error (the message is
\* empty or blank, or handling the input raised) leaves the history of
\* every session as it was: no user message is recorded, no session is
\* created, and the gateway is not called.
C24_ErrorLeavesHistory ==
    \A t \in Callers :
        LET f == task[t] IN
        (/\ f.op = "process_request"
         /\ f.pc = "returned"
         /\ f.result = "error"
         /\ f.agent_called
         /\ f.obj \in ChatBots)
        => /\ agents[f.obj].conversations =
                 f.agents_before[f.obj].conversations
           /\ ~f.gateway_called
           /\ call[t] = IdleFrame
           /\ f.error \in {"blank message", "AttributeError"}

\* a ChatBot with a gateway and a history returned an error for a blank
\* message on a session that does not exist
C24_Witness ==
    \E t \in Callers :
        LET f == task[t] IN
        /\ f.op = "process_request"
        /\ f.pc = "returned"
        /\ f.result = "error"
        /\ f.obj \in ChatBots
        /\ f.error = "blank message"
        /\ agents[f.obj].deps # 0
        /\ agents[f.obj].conversations # <<>>
        /\ f.session_id \notin DOMAIN agents[f.obj].conversations

\* C26: a process call of a ChatBot with a message that is not blank
\* returns success with a reply that is not empty in every case: without an
\* injected gateway, when the gateway call raises (no provider, or every
\* attempt failed) and when the gateway returns an empty or blank text the
\* default reply is used; a failure of the gateway never becomes an error
\* result.
C26_FallbackReply ==
    \A t \in Callers :
        LET f == task[t] IN
        (/\ f.op = "process_request"
         /\ f.pc = "returned"
         /\ f.obj \in ChatBots
         /\ f.message # None
         /\ Strip(f.message) # "")
        => /\ f.result = "success"
           /\ f.reply \notin {None, "", " "}
           /\ ~f.gateway_called => f.reply = DefaultReply
           /\ ~f.gateway_called <=> agents[f.obj].deps = 0
           /\ f.error \in {"gateway failed", "blank reply"}
              => f.reply = DefaultReply
           /\ f.error = None /\ f.gateway_called
              => f.reply \in {"completion", "greeting", "echo"}

\* the gateway raised after its last retry and process returned the default
\* reply with status success
C26_Witness ==
    \E t \in Callers :
        LET f == task[t] IN
        /\ f.op = "process_request"
        /\ f.pc = "returned"
        /\ f.result = "success"
        /\ f.error = "gateway failed"
        /\ CountEv(f.gateway_log, "invoke") = 3
        /\ CountEv(f.gateway_log, "ok") = 0
        /\ f.reply = DefaultReply

\* the gateway returned a blank text and process returned the default reply
C26_WitnessBlank ==
    \E t \in Callers :
        LET f == task[t] IN
        /\ f.pc = "returned"
        /\ f.error = "blank reply"
        /\ f.reply = DefaultReply

\* a ChatBot without a gateway returned the default reply
C26_WitnessNoGateway ==
    \E t \in Callers :
        LET f == task[t] IN
        /\ f.pc = "returned"
        /\ f.result = "success"
        /\ ~f.gateway_called
        /\ f.reply = DefaultReply

\* C25: after any sequence of add_message and clear_conversation calls the
\* history of every session has at most max_history messages and is, in
\* insertion order, the most recent min(n, max_history) of the n messages
\* added to that session since it was last cleared; a session that was
\* cleared or never written has an empty history, so a call on one session
\* leaves the history of every other session as it was.
C25_BoundedHistory ==
    LET cm == conversation_manager IN
    \A sid \in Sessions :
        LET h == History(cm.conversations, sid)
            a == History(cm.added, sid)
            n == Len(a)
            k == IF n < cm.max_history THEN n ELSE cm.max_history
        IN  /\ Len(h) <= cm.max_history
            /\ Len(h) = k
            /\ h = SubSeq(a, n - k + 1, n)

\* a call on one session changes no other session's history
C25_OtherSessions ==
    [][\A sid \in Sessions :
          History(conversation_manager.added, sid) =
             History(conversation_manager'.added, sid)
          => History(conversation_manager.conversations, sid) =
                History(conversation_manager'.conversations, sid)]_vars

\* messages were evicted from one session while another holds its own
C25_Witness ==
    LET cm == conversation_manager IN
    /\ Len(History(cm.added, "default")) > cm.max_history
    /\ cm.max_history >= 2
    /\ Len(History(cm.conversations, "default")) = cm.max_history
    /\ Len(History(cm.conversations, "s2")) = 1
    /\ cm.count > Len(History(cm.added, "default")) + 1

\* C27: from the return of APIServer.initialize until shutdown, under any
\* sequence of create_chatbot, remove_chatbot and chat_with_bot, the default
\* id stays in active_agents, bound to the instance initialize created, and
\* that instance stays initialized; remove_chatbot with the default id
\* returns an error and shuts nothing down, create_chatbot with the default
\* id returns an error and replaces nothing.
C27_DefaultChatbotStays ==
    (app.api_server /\ app.pc = "running")
    => /\ default_chatbot_id \in DOMAIN active_agents
       /\ active_agents[default_chatbot_id] = 1
       /\ agents[1].is_initialized
       /\ \A t \in Callers :
             LET f == task[t] IN
             /\ f.op = "remove_chatbot"
                => /\ f.result = "error"
                   /\ agents = f.agents_before
                   /\ active_agents = f.active_before
             /\ (f.op = "create_agent" /\ f.agent_id = default_chatbot_id)
                => /\ CreateChatbotResult(f) = "error"
                   /\ agents = f.agents_before
                   /\ active_agents = f.active_before

\* remove_chatbot with the default id returned its error while a second
\* ChatBot is active and the default ChatBot holds a conversation
C27_Witness ==
    /\ app.api_server
    /\ app.pc = "running"
    /\ task[1].op = "remove_chatbot"
    /\ task[1].pc = "returned"
    /\ task[1].result = "error"
    /\ "a2" \in DOMAIN active_agents
    /\ agents[1].conversations # <<>>

\* create_chatbot with the default id returned its error
C27_WitnessCreate ==
    /\ app.api_server
    /\ app.pc = "running"
    /\ task[1].op = "create_agent"
    /\ task[1].agent_id = default_chatbot_id
    /\ task[1].pc = "raised"

\* C30: when PuqeeApplication.shutdown has shut the gateway down, in
\* whatever mode the application ran, no agent is left in active_agents and
\* no agent is still marked initialized: the agents were shut down before
\* the gateway was.
C30_AgentsDownBeforeGateway ==
    (app.pc \in {"gateway", "stopped"} /\ lifecycle = "shutdown")
    => /\ active_agents = EmptyMap
       /\ \A o \in 1..Len(agents) : ~agents[o].is_initialized

\* the same for the modes that run an APIServer
C30_APIServerModes ==
    (app.mode # "http" /\ app.pc \in {"gateway", "stopped"})
    => /\ active_agents = EmptyMap
       /\ \A o \in 1..Len(agents) : ~agents[o].is_initialized

\* C28: when create_agent calls with the same agent_id interleave at the
\* await of the initialization, at most one of them succeeds and no
\* initialized instance is left that is not in active_agents (no agent is
\* shut down in this specification).
C28_OneCreateSucceeds ==
    /\ \A o \in 1..Len(agents) :
          agents[o].is_initialized => o \in ActiveObjects
    /\ \A t1, t2 \in Callers :
          (/\ t1 # t2
           /\ task[t1].op = "create_agent"
           /\ task[t2].op = "create_agent"
           /\ task[t1].agent_id = task[t2].agent_id
           /\ task[t1].pc = "returned")
          => task[t2].pc # "returned"

\* C28, second part: an entry of active_agents is never replaced by another
\* instance
C28_NeverOverwritten ==
    [][\A id \in DOMAIN active_agents :
          id \in DOMAIN active_agents'
          => active_agents'[id] = active_agents[id]]_vars

\* C29: in the history of every session each user message is immediately
\* followed by the assistant reply of the same process call, or is the last
\* message while that call is still waiting for the gateway; two user
\* messages are never adjacent, also when process calls for one session
\* interleave at the await of the gateway.
C29_UserThenReply ==
    \A o \in ChatBots : \A sid \in DOMAIN agents[o].conversations :
        LET h == agents[o].conversations[sid] IN
        \A i \in 1..Len(h) :
            h[i].role = "user"
            => IF i < Len(h)
               THEN /\ h[i + 1].role = "assistant"
                    /\ h[i + 1].by = h[i].by
               ELSE Generating(h[i].by, o, sid)

====
